---- MODULE Spec2Model ----
(***************************************************************************)
(* A model of the analytics REST backend: the servers / primary_analytics  *)
(* / type_analytic tables, the server-selection utility, the primary       *)
(* analytic, server and type-analytic controllers, and the authentication  *)
(* middlewares.  Every request handler is a small process whose steps are  *)
(* its awaited database calls, so that overlapping requests interleave     *)
(* exactly where the event loop lets them.                                 *)
(***************************************************************************)
EXTENDS Integers, Sequences, FiniteSets, TLC

\* ------------------------------------------------------------------ bounds
MaxServers == 2
MaxCapacity == 1
MaxDirectCapacity == 2
MaxRequired == 2
MaxAnalytics == 2
MaxOverlapping == 2
MaxManaging == 3

ServerIds == 1..MaxServers
CapacityValues == 0..MaxCapacity
\* createServerSchema lets a client set any cur_activity_monitoring >= 0
DirectCapacityValues == 0..MaxDirectCapacity
CurValues == 0..(MaxDirectCapacity + 1)
RequiredCaps == 1..MaxRequired
\* 1 = activity monitoring, 2 = customer service time, 3 = any other type
TypeIds == {1, 2, 3}
AnalyticIds == 1..MaxAnalytics
NoId == 0
\* the request slots: two requests are enough to overlap
ProcIds == {1, 2}

VARIABLES
  servers,      \* table servers: id -> row
  analytics,    \* table primary_analytics: id -> row
  types,        \* table type_analytic: the ids that exist
  nextAnalyticId, \* the AUTO_INCREMENT counter of primary_analytics
  procs,        \* the requests in flight: one handler invocation per slot
  inFlightLimit, \* how many requests may overlap (1: one at a time)
  budget,       \* how many more requests a behaviour follows (-1: any number)
  utilCall,     \* the last direct call of a server-selection function
  utilResult,   \* and what it returned
  nextServerId, \* the AUTO_INCREMENT counter of servers
  env,          \* process.env: the *_TOKENS variables
  users,        \* table users: the ids that exist
  http,         \* the request passing through an authentication middleware
  listCall,     \* the last direct call of a list helper
  listResult,   \* and what it returned
  fileRows,     \* the row of each file-bearing table
  disk,         \* the files under files/uploads
  fprocs,       \* the requests on file-bearing rows that are in flight
  clock,        \* the second the wall clock shows
  nextUuid,     \* the next value randomUUID gives
  retry,        \* the call of makeRequestWithRetry in progress
  rateLimitMap, \* the rate limiter's table: client -> count and resetTime
  nowMs,        \* Date.now()
  passed,       \* per client and route, the requests let through since the
                \* client's record was last set
  lastLimited,  \* the last request through a rate limiter and its outcome
  sessions      \* per user, the session token a login issued: whether it
                \* was issued, whether its user has logged out, and whether
                \* its 24 hours have passed

dbVars == <<servers, analytics, types, nextAnalyticId>>
ctlVars == <<inFlightLimit, budget>>
utilVars == <<utilCall, utilResult>>
authVars == <<env, users, http>>
listVars == <<listCall, listResult>>
fileVars == <<fileRows, disk, fprocs, clock, nextUuid>>
retryVars == <<retry>>
rateVars == <<rateLimitMap, nowMs, passed, lastLimited>>
sessionVars == <<sessions>>
postVars == <<rateVars, sessionVars>>
tailVars == <<retryVars, postVars>>
extVars == <<listVars, fileVars, tailVars>>
restVars == <<nextServerId, ctlVars, utilVars, authVars, extVars>>
vars == <<servers, analytics, types, nextAnalyticId, procs, inFlightLimit,
          budget, utilCall, utilResult, nextServerId, env, users, http,
          listCall, listResult, fileRows, disk, fprocs, clock, nextUuid,
          retry, rateLimitMap, nowMs, passed, lastLimited, sessions>>

NoServer == [exists |-> FALSE, ip |-> 0, max |-> 0, cur |-> 0]
NoAnalytic == [exists |-> FALSE, server |-> NoId, type |-> NoId]

Max2(a, b) == IF a >= b THEN a ELSE b

\* ----------------------------------------------- server-selection utility
\* getServerCapacityInfo: findMany returns the rows in primary-key order
RECURSIVE serverRows(_, _)
serverRows(db, i) ==
  IF i > MaxServers THEN <<>>
  ELSE (IF db[i].exists THEN <<i>> ELSE <<>>) \o serverRows(db, i + 1)

getServerCapacityInfo(db) == serverRows(db, 1)

availableCapacity(server) == server.max - server.cur

\* utilizationPercentage = max > 0 ? (cur / max) * 100 : 0, kept as a fraction
utilizationNum(server) == IF server.max > 0 THEN server.cur * 100 ELSE 0
utilizationDen(server) == IF server.max > 0 THEN server.max ELSE 1

\* the comparator handed to Array.sort: negative when a sorts before b
compareServersTieLowest(a, b) ==
  IF utilizationNum(a) * utilizationDen(b) # utilizationNum(b) * utilizationDen(a)
  THEN utilizationNum(a) * utilizationDen(b) - utilizationNum(b) * utilizationDen(a)
  ELSE availableCapacity(a) - availableCapacity(b)

compareServers(a, b) ==
  IF utilizationNum(a) * utilizationDen(b) # utilizationNum(b) * utilizationDen(a)
  THEN utilizationNum(a) * utilizationDen(b) - utilizationNum(b) * utilizationDen(a)
  ELSE availableCapacity(b) - availableCapacity(a)

\* Array.prototype.sort is stable: equal rows keep their order
RECURSIVE insertSorted(_, _, _)
insertSorted(db, x, sorted) ==
  IF sorted = <<>> THEN <<x>>
  ELSE IF compareServers(db[x], db[Head(sorted)]) <= 0 THEN <<x>> \o sorted
  ELSE <<Head(sorted)>> \o insertSorted(db, x, Tail(sorted))

RECURSIVE sortServers(_, _)
sortServers(db, rows) ==
  IF rows = <<>> THEN <<>>
  ELSE insertSorted(db, Head(rows), sortServers(db, Tail(rows)))

\* selectBestServer: the id of the chosen server, NoId for null
selectBestServer(db, typeAnalyticId, requiredCapacity, excludeServerIds) ==
  LET all == getServerCapacityInfo(db)
      availableServers == SelectSeq(all, LAMBDA s : s \notin excludeServerIds)
      serversWithCapacity ==
        SelectSeq(availableServers,
                  LAMBDA s : availableCapacity(db[s]) >= requiredCapacity)
      activityMonitoringServers ==
        SelectSeq(serversWithCapacity, LAMBDA s : db[s].max > 0)
  IN IF serversWithCapacity = <<>> THEN NoId
     ELSE IF typeAnalyticId = 1
          THEN IF activityMonitoringServers = <<>> THEN NoId
               ELSE sortServers(db, activityMonitoringServers)[1]
          ELSE sortServers(db, serversWithCapacity)[1]

\* reserveServerCapacity, the check on the row it read
reserveFitsOffByOne(server, capacity) ==
  ~(server.cur + capacity > server.max + 1)

reserveFits(server, capacity) ==
  ~(server.cur + capacity > server.max)

\* the value reserveServerCapacity writes back
reserveNewCur(server, capacity) == server.cur + capacity

\* the value releaseServerCapacity writes back
releaseNewCur(server, capacity) == Max2(0, server.cur - capacity)

\* reserveServerCapacity run without interruption: <<returned, servers after>>
reserveServerCapacity(db, serverId, typeAnalyticId, capacity) ==
  IF typeAnalyticId = 1
  THEN IF ~db[serverId].exists THEN <<FALSE, db>>
       ELSE IF ~reserveFits(db[serverId], capacity) THEN <<FALSE, db>>
       ELSE <<TRUE, [db EXCEPT ![serverId].cur =
                       reserveNewCur(db[serverId], capacity)]>>
  ELSE <<TRUE, db>>

\* releaseServerCapacity run without interruption
releaseServerCapacity(db, serverId, typeAnalyticId, capacity) ==
  IF typeAnalyticId = 1
  THEN IF ~db[serverId].exists THEN <<FALSE, db>>
       ELSE <<TRUE, [db EXCEPT ![serverId].cur =
                       releaseNewCur(db[serverId], capacity)]>>
  ELSE <<TRUE, db>>

\* checkServerCapacity on the row findUnique returned (NoServer for null)
checkServerCapacityAllTypes(server, typeAnalyticId, requiredCapacity) ==
  IF ~server.exists THEN FALSE
  ELSE server.cur + requiredCapacity <= server.max

checkServerCapacity(server, typeAnalyticId, requiredCapacity) ==
  IF ~server.exists THEN FALSE
  ELSE IF typeAnalyticId = 1
       THEN server.cur + requiredCapacity <= server.max
       ELSE TRUE

\* ------------------------------------------------------ request handlers
\* One slot of procs is one invocation of a controller.  pc names the awaited
\* call it is about to make; sel, cur, etype and snapCur are the
\* handler's local variables (selectedServerId, currentServerId,
\* existingPrimaryAnalytic.type_analytic_id, and the `server` row read inside
\* reserve/releaseServerCapacity); status and reason are the response;
\* wrote records that the invocation changed the value of a capacity counter
\* by a statement outside its transaction, free the free units its capacity
\* check observed, row the body of a create-server request.
Idle == [pc |-> "idle", op |-> "none", id |-> NoId, serverId |-> NoId,
         type |-> NoId, isServer |-> TRUE, polyOk |-> TRUE,
         sel |-> NoId, cur |-> NoId, etype |-> NoId,
         snapCur |-> 0,
         status |-> 0, reason |-> "", wrote |-> FALSE, free |-> 0,
         row |-> NoServer]

InFlight == {p \in ProcIds : procs[p].pc \notin {"idle", "done"}}

\* a request is taken by the lowest free slot; served one at a time, the next
\* request starts after the response of the one before
CanStart(p) ==
  /\ procs[p].pc = "idle"
  /\ \A q \in ProcIds : q < p => procs[q].pc # "idle"
  /\ Cardinality({q \in ProcIds : procs[q].pc # "idle"}) < inFlightLimit
  /\ budget # 0

Started == budget' = IF budget > 0 THEN budget - 1 ELSE budget

Respond(r, st, why) == [r EXCEPT !.pc = "done", !.status = st, !.reason = why]

Set(p, r) == procs' = [procs EXCEPT ![p] = r]

\* --- createPrimaryAnalytic
\* the request arrives and type_analytic.findUnique runs; the cctv ids of the
\* body are taken to exist
StartCreatePA(p, serverId, typeId, isServer, polyOk) ==
  /\ CanStart(p)
  /\ nextAnalyticId + Cardinality({q \in InFlight : procs[q].op = "createPA"})
       <= MaxAnalytics
  /\ LET r == [Idle EXCEPT !.op = "createPA", !.serverId = serverId,
                           !.type = typeId, !.isServer = isServer,
                           !.polyOk = polyOk]
     IN Set(p, IF typeId \notin types THEN Respond(r, 404, "type_not_found")
               ELSE IF ~isServer THEN [r EXCEPT !.pc = "cpa_tx", !.sel = 1]
               ELSE IF serverId # NoId THEN [r EXCEPT !.pc = "cpa_server"]
               ELSE [r EXCEPT !.pc = "cpa_auto"])
  /\ Started
  /\ UNCHANGED <<dbVars, nextServerId, inFlightLimit, utilVars, authVars, extVars>>

\* servers.findUnique({id: serverId})
CpaServer(p) ==
  /\ procs[p].pc = "cpa_server"
  /\ Set(p, IF ~servers[procs[p].serverId].exists
            THEN Respond(procs[p], 404, "server_not_found")
            ELSE [procs[p] EXCEPT !.pc = "cpa_check"])
  /\ UNCHANGED <<dbVars, restVars>>

\* checkServerCapacity(serverId, typeAnalyticId, 1)
CpaCheck(p) ==
  /\ procs[p].pc = "cpa_check"
  /\ LET row == servers[procs[p].serverId]
     IN Set(p, IF ~checkServerCapacity(row, procs[p].type, 1)
               THEN Respond(procs[p], 400, "capacity")
               ELSE [procs[p] EXCEPT !.pc = "cpa_tx",
                                     !.sel = procs[p].serverId,
                                     !.free = row.max - row.cur])
  /\ UNCHANGED <<dbVars, restVars>>

\* servers.findFirst({cur_activity_monitoring < max_activity_monitoring},
\* orderBy id asc): the id found, NoId for null
findFirstWithFreeCapacity(db) ==
  IF \E s \in ServerIds : db[s].exists /\ db[s].cur < db[s].max
  THEN CHOOSE s \in ServerIds :
         /\ db[s].exists /\ db[s].cur < db[s].max
         /\ \A o \in ServerIds :
              (db[o].exists /\ db[o].cur < db[o].max) => s <= o
  ELSE NoId

\* auto-selection: types 1 and 2 take the first server with a free unit
CpaAuto(p) ==
  /\ procs[p].pc = "cpa_auto"
  /\ LET found == findFirstWithFreeCapacity(servers)
     IN Set(p, IF procs[p].type \notin {1, 2}
               THEN Respond(procs[p], 400, "auto_unsupported")
               ELSE IF found = NoId THEN Respond(procs[p], 400, "capacity")
               ELSE [procs[p] EXCEPT !.pc = "cpa_tx", !.sel = found,
                       !.free = servers[found].max - servers[found].cur])
  /\ UNCHANGED <<dbVars, restVars>>

\* tx.servers.update({cur_activity_monitoring: {increment: 1}}) of the create
\* transaction: whether the statement succeeds, and the value it leaves
incrementInTxGuarded(server) ==
  [ok |-> server.exists /\ server.cur < server.max, cur |-> server.cur + 1]

incrementInTx(server) ==
  [ok |-> server.exists, cur |-> server.cur + 1]

\* whether createPrimaryAnalytic's transaction touches the counter
createCountsCapacity(isServer, typeId) == isServer /\ typeId \in {1, 2}

\* prisma.$transaction of createPrimaryAnalytic: all of it or nothing.  It
\* throws when the counted server row is gone, when servers_id or
\* type_analytic_id has no parent row, or when a polygon names a cctv that
\* does not exist (the polygon cctv ids are fetched but never compared).
CpaTx(p) ==
  /\ procs[p].pc = "cpa_tx"
  /\ LET r == procs[p]
         counted == createCountsCapacity(r.isServer, r.type)
         inc == incrementInTx(servers[r.sel])
         ok == /\ counted => inc.ok
               /\ servers[r.sel].exists
               /\ r.type \in types
               /\ r.polyOk
     IN IF ok
        THEN /\ servers' = IF counted
                           THEN [servers EXCEPT ![r.sel].cur = inc.cur]
                           ELSE servers
             /\ analytics' = [analytics EXCEPT ![nextAnalyticId] =
                                [exists |-> TRUE, server |-> r.sel,
                                 type |-> r.type]]
             /\ nextAnalyticId' = nextAnalyticId + 1
             /\ Set(p, [Respond(r, 201, "created") EXCEPT
                          !.id = nextAnalyticId])
             /\ UNCHANGED types
        ELSE /\ Set(p, Respond(r, 500, "create_failed"))
             /\ UNCHANGED dbVars
  /\ UNCHANGED restVars

\* --- release/reserveServerCapacity as called from update and delete: they
\* use the module's own client, so each call is a read and then a write that
\* commit on their own, whatever happens to the surrounding transaction
AfterRelease(r) ==
  IF r.op = "updatePA" THEN "res_read" ELSE "dpa_tx"

\* releaseServerCapacity(currentServerId, existing type, 1): findUnique
ReleaseRead(p) ==
  /\ procs[p].pc = "rel_read"
  /\ LET r == procs[p]
     IN Set(p, IF r.etype = 1 /\ servers[r.cur].exists
               THEN [r EXCEPT !.pc = "rel_write",
                              !.snapCur = servers[r.cur].cur]
               ELSE [r EXCEPT !.pc = AfterRelease(r)])
  /\ UNCHANGED <<dbVars, restVars>>

\* releaseServerCapacity: servers.update with the value computed from the read
ReleaseWrite(p) ==
  /\ procs[p].pc = "rel_write"
  /\ LET r == procs[p]
         row == [NoServer EXCEPT !.cur = r.snapCur]
     IN IF servers[r.cur].exists
        THEN /\ servers' = [servers EXCEPT ![r.cur].cur = releaseNewCur(row, 1)]
             /\ Set(p, [r EXCEPT !.pc = AfterRelease(r), !.snapCur = 0,
                          !.wrote = @ \/ releaseNewCur(row, 1) # servers[r.cur].cur])
        ELSE /\ Set(p, [r EXCEPT !.pc = AfterRelease(r), !.snapCur = 0])
             /\ UNCHANGED servers
  /\ UNCHANGED <<analytics, types, nextAnalyticId, restVars>>

NewType(r) == IF r.type # NoId THEN r.type ELSE r.etype

\* reserveServerCapacity(selectedServerId, newTypeAnalyticId, 1): findUnique
\* and the check; false makes the transaction callback throw
ReserveRead(p) ==
  /\ procs[p].pc = "res_read"
  /\ LET r == procs[p]
         row == servers[r.sel]
     IN Set(p, IF NewType(r) # 1 THEN [r EXCEPT !.pc = "upa_tx"]
               ELSE IF ~row.exists \/ ~reserveFits(row, 1)
               THEN Respond(r, 500, "update_failed")
               ELSE [r EXCEPT !.pc = "res_write", !.snapCur = row.cur,
                              !.free = row.max - row.cur])
  /\ UNCHANGED <<dbVars, restVars>>

\* reserveServerCapacity: servers.update with the value computed from the read
ReserveWrite(p) ==
  /\ procs[p].pc = "res_write"
  /\ LET r == procs[p]
         row == [NoServer EXCEPT !.cur = r.snapCur]
     IN IF servers[r.sel].exists
        THEN /\ servers' = [servers EXCEPT ![r.sel].cur = reserveNewCur(row, 1)]
             /\ Set(p, [r EXCEPT !.pc = "upa_tx", !.snapCur = 0,
                          !.wrote = @ \/ reserveNewCur(row, 1) # servers[r.sel].cur])
        ELSE /\ Set(p, Respond([r EXCEPT !.snapCur = 0],
                               500, "update_failed"))
             /\ UNCHANGED servers
  /\ UNCHANGED <<analytics, types, nextAnalyticId, restVars>>

\* --- updatePrimaryAnalytic
\* where the handler goes once selectedServerId is known: the type lookup
AfterSelection(r, sel) == [r EXCEPT !.pc = "upa_type", !.sel = sel]

\* the request arrives and primary_analytics.findUnique runs; typeId = NoId
\* is a body without primaryAnalytics.typeAnalyticId
StartUpdatePA(p, id, serverId, typeId) ==
  /\ CanStart(p)
  /\ LET row == analytics[id]
         r == [Idle EXCEPT !.op = "updatePA", !.id = id, !.serverId = serverId,
                           !.type = typeId, !.cur = row.server,
                           !.etype = row.type]
         fallback == IF row.server # NoId THEN row.server ELSE 1
     IN Set(p, IF ~row.exists
               THEN Respond([r EXCEPT !.cur = NoId, !.etype = NoId],
                            404, "analytic_not_found")
               ELSE IF serverId # NoId THEN [r EXCEPT !.pc = "upa_server"]
               ELSE IF typeId # NoId /\ typeId # row.type
                    THEN IF row.server # NoId
                         THEN [r EXCEPT !.pc = "upa_checkcur"]
                         ELSE AfterSelection(r, fallback)
               ELSE AfterSelection(r, fallback))
  /\ Started
  /\ UNCHANGED <<dbVars, nextServerId, inFlightLimit, utilVars, authVars, extVars>>

\* servers.findUnique({id: serverId})
UpaServer(p) ==
  /\ procs[p].pc = "upa_server"
  /\ LET r == procs[p]
     IN Set(p, IF ~servers[r.serverId].exists
               THEN Respond(r, 404, "server_not_found")
               ELSE IF r.serverId # r.cur THEN [r EXCEPT !.pc = "upa_check"]
               ELSE AfterSelection(r, r.serverId))
  /\ UNCHANGED <<dbVars, restVars>>

\* checkServerCapacity(serverId, newTypeAnalyticId, 1)
UpaCheck(p) ==
  /\ procs[p].pc = "upa_check"
  /\ LET r == procs[p]
     IN Set(p, IF ~checkServerCapacity(servers[r.serverId], NewType(r), 1)
               THEN Respond(r, 400, "capacity")
               ELSE AfterSelection(r, r.serverId))
  /\ UNCHANGED <<dbVars, restVars>>

\* type changed, no serverId: checkServerCapacity(currentServerId, newType, 1)
UpaCheckCur(p) ==
  /\ procs[p].pc = "upa_checkcur"
  /\ LET r == procs[p]
     IN Set(p, IF ~checkServerCapacity(servers[r.cur], NewType(r), 1)
               THEN [r EXCEPT !.pc = "upa_select"]
               ELSE AfterSelection(r, r.cur))
  /\ UNCHANGED <<dbVars, restVars>>

\* selectBestServer(newType, {requiredCapacity: 1, excludeServerIds: [current]})
UpaSelect(p) ==
  /\ procs[p].pc = "upa_select"
  /\ LET r == procs[p]
         best == selectBestServer(servers, NewType(r), 1, {r.cur})
     IN Set(p, IF best = NoId THEN Respond(r, 400, "capacity")
               ELSE AfterSelection(r, best))
  /\ UNCHANGED <<dbVars, restVars>>

\* type_analytic.findUnique when the body names a type; then the transaction
\* callback starts, with the capacity calls when the server changes
UpaType(p) ==
  /\ procs[p].pc = "upa_type"
  /\ LET r == procs[p]
     IN Set(p, IF r.type # NoId /\ r.type \notin types
               THEN Respond(r, 404, "type_not_found")
               ELSE IF r.sel # r.cur /\ r.cur # NoId
               THEN [r EXCEPT !.pc = "rel_read"]
               ELSE [r EXCEPT !.pc = "upa_tx"])
  /\ UNCHANGED <<dbVars, restVars>>

\* the tx.* writes of updatePrimaryAnalytic: all of them or none.  The update
\* throws when the row is gone or a new servers_id / type_analytic_id has no
\* parent row.
UpaTx(p) ==
  /\ procs[p].pc = "upa_tx"
  /\ LET r == procs[p]
         ok == /\ analytics[r.id].exists
               /\ (r.sel # r.cur => servers[r.sel].exists)
               /\ (r.type # NoId => r.type \in types)
     IN IF ok
        THEN /\ analytics' = [analytics EXCEPT
                  ![r.id].server = IF r.sel # r.cur THEN r.sel ELSE @,
                  ![r.id].type = IF r.type # NoId THEN r.type ELSE @]
             /\ Set(p, Respond(r, 200, "updated"))
        ELSE /\ Set(p, Respond(r, 500, "update_failed"))
             /\ UNCHANGED analytics
  /\ UNCHANGED <<servers, types, nextAnalyticId, restVars>>

\* --- deletePrimaryAnalytic
\* the request arrives and primary_analytics.findUnique runs; then the
\* transaction callback starts with releaseServerCapacity
StartDeletePA(p, id) ==
  /\ CanStart(p)
  /\ LET row == analytics[id]
         r == [Idle EXCEPT !.op = "deletePA", !.id = id, !.cur = row.server,
                           !.etype = row.type]
     IN Set(p, IF ~row.exists
               THEN Respond([r EXCEPT !.cur = NoId, !.etype = NoId],
                            404, "analytic_not_found")
               ELSE IF row.server # NoId THEN [r EXCEPT !.pc = "rel_read"]
               ELSE [r EXCEPT !.pc = "dpa_tx"])
  /\ Started
  /\ UNCHANGED <<dbVars, nextServerId, inFlightLimit, utilVars, authVars, extVars>>

\* the tx.* deletes of deletePrimaryAnalytic: primary_analytics.delete throws
\* when the row is already gone
DpaTx(p) ==
  /\ procs[p].pc = "dpa_tx"
  /\ LET r == procs[p]
     IN IF analytics[r.id].exists
        THEN /\ analytics' = [analytics EXCEPT ![r.id] = NoAnalytic]
             /\ Set(p, Respond(r, 200, "deleted"))
        ELSE /\ Set(p, Respond(r, 500, "delete_failed"))
             /\ UNCHANGED analytics
  /\ UNCHANGED <<servers, types, nextAnalyticId, restVars>>

\* the response has been sent; the slot is free for the next request
Finish(p) ==
  /\ procs[p].pc = "done"
  /\ Set(p, Idle)
  /\ UNCHANGED <<dbVars, restVars>>

\* ----------------------------------------------------- server controller
\* servers.findUnique({where: {ip}}): whether a row holds the address
ipTakenLastRow(db, ip) == db[MaxServers].exists /\ db[MaxServers].ip = ip

ipTaken(db, ip) == \E s \in ServerIds : db[s].exists /\ db[s].ip = ip

\* createServer: the request arrives and the lookup by ip runs
StartCreateServer(p, ip, max, cur) ==
  /\ CanStart(p)
  /\ \/ ipTaken(servers, ip)
     \/ nextServerId
          + Cardinality({q \in InFlight : procs[q].op = "createServer"})
          <= MaxServers
  /\ LET r == [Idle EXCEPT !.op = "createServer",
                           !.row = [exists |-> TRUE, ip |-> ip, max |-> max,
                                    cur |-> cur]]
     IN Set(p, IF ipTaken(servers, ip) THEN Respond(r, 409, "ip_taken")
               ELSE [r EXCEPT !.pc = "cs_create"])
  /\ Started
  /\ UNCHANGED <<dbVars, nextServerId, inFlightLimit, utilVars, authVars, extVars>>

\* servers.create: the unique index servers_ip_key makes it throw when the
\* address has been taken since the lookup
CsCreate(p) ==
  /\ procs[p].pc = "cs_create"
  /\ LET r == procs[p]
     IN IF ipTaken(servers, r.row.ip)
        THEN /\ Set(p, Respond(r, 500, "create_failed"))
             /\ UNCHANGED <<servers, nextServerId>>
        ELSE /\ servers' = [servers EXCEPT ![nextServerId] = r.row]
             /\ nextServerId' = nextServerId + 1
             /\ Set(p, [Respond(r, 201, "created") EXCEPT !.id = nextServerId])
  /\ UNCHANGED <<analytics, types, nextAnalyticId, ctlVars, utilVars, authVars, extVars>>

\* _count.primary_analytics of a server row
countAnalyticsOn(rows, s) ==
  Cardinality({a \in AnalyticIds : rows[a].exists /\ rows[a].server = s})

serverHasAnalyticsMoreThanOne(count) == count > 1

serverHasAnalytics(count) == count > 0

\* deleteServer: the request arrives and findUnique with the count runs
StartDeleteServer(p, id) ==
  /\ CanStart(p)
  /\ LET r == [Idle EXCEPT !.op = "deleteServer", !.id = id]
     IN Set(p, IF ~servers[id].exists
               THEN Respond(r, 404, "server_not_found")
               ELSE IF serverHasAnalytics(countAnalyticsOn(analytics, id))
               THEN Respond(r, 400, "has_analytics")
               ELSE [r EXCEPT !.pc = "ds_delete"])
  /\ Started
  /\ UNCHANGED <<dbVars, nextServerId, inFlightLimit, utilVars, authVars, extVars>>

\* servers.delete: throws when the row is gone; primary_analytics.servers_id
\* is ON DELETE SET NULL
DsDelete(p) ==
  /\ procs[p].pc = "ds_delete"
  /\ LET r == procs[p]
     IN IF servers[r.id].exists
        THEN /\ servers' = [servers EXCEPT ![r.id] = NoServer]
             /\ analytics' = [a \in AnalyticIds |->
                                IF analytics[a].exists
                                   /\ analytics[a].server = r.id
                                THEN [analytics[a] EXCEPT !.server = NoId]
                                ELSE analytics[a]]
             /\ Set(p, Respond(r, 200, "deleted"))
        ELSE /\ Set(p, Respond(r, 500, "delete_failed"))
             /\ UNCHANGED <<servers, analytics>>
  /\ UNCHANGED <<types, nextAnalyticId, restVars>>

\* ---------------------------------------------- type-analytic controller
\* _count.primary_analytics of a type_analytic row
countAnalyticsOfType(rows, t) ==
  Cardinality({a \in AnalyticIds : rows[a].exists /\ rows[a].type = t})

typeInUse(count) == count > 0

\* deleteTypeAnalytic: the request arrives and findUnique with the count runs
StartDeleteType(p, id) ==
  /\ CanStart(p)
  /\ LET r == [Idle EXCEPT !.op = "deleteType", !.id = id]
     IN Set(p, IF id \notin types THEN Respond(r, 404, "type_not_found")
               ELSE IF typeInUse(countAnalyticsOfType(analytics, id))
               THEN Respond(r, 400, "type_in_use")
               ELSE [r EXCEPT !.pc = "dt_delete"])
  /\ Started
  /\ UNCHANGED <<dbVars, nextServerId, inFlightLimit, utilVars, authVars, extVars>>

\* type_analytic.delete: throws when the row is gone, and when a primary
\* analytic references it (primary_analytics.type_analytic_id is ON DELETE
\* RESTRICT)
DtDelete(p) ==
  /\ procs[p].pc = "dt_delete"
  /\ LET r == procs[p]
     IN IF r.id \in types /\ countAnalyticsOfType(analytics, r.id) = 0
        THEN /\ types' = types \ {r.id}
             /\ Set(p, Respond(r, 200, "deleted"))
        ELSE /\ Set(p, Respond(r, 500, "delete_failed"))
             /\ UNCHANGED types
  /\ UNCHANGED <<servers, analytics, nextAnalyticId, restVars>>

\* ------------------------------------------- authentication middlewares
\* a string is a sequence of symbols; "Bearer " is one symbol
UserIds == {1, 2}

NoCookie == [kind |-> "absent", signed |-> FALSE, expired |-> FALSE,
             userId |-> NoId]
NoHeaders == [xSecurity |-> <<>>, xApi |-> <<>>, authorization |-> <<>>,
              xAccess |-> <<>>]
NoRequest == [pc |-> "idle", route |-> "none", cookie |-> NoCookie,
              headers |-> NoHeaders, status |-> 0, next |-> FALSE]
Unset == [set |-> FALSE, text |-> <<>>]

NoAuth ==
  /\ env = [registration |-> Unset, admin |-> Unset, sensitive |-> Unset,
            general |-> Unset]
  /\ users = {}
  /\ http = NoRequest

\* String.prototype.split(','): the pieces between the commas
RECURSIVE split(_, _)
split(str, piece) ==
  IF str = <<>> THEN <<piece>>
  ELSE IF Head(str) = "," THEN <<piece>> \o split(Tail(str), <<>>)
  ELSE split(Tail(str), Append(piece, Head(str)))

\* String.prototype.trim(): without the leading and trailing blanks
RECURSIVE trimStart(_)
trimStart(str) ==
  IF str # <<>> /\ Head(str) = " " THEN trimStart(Tail(str)) ELSE str

RECURSIVE trimEnd(_)
trimEnd(str) ==
  IF str # <<>> /\ str[Len(str)] = " "
  THEN trimEnd(SubSeq(str, 1, Len(str) - 1))
  ELSE str

trim(str) == trimEnd(trimStart(str))

\* process.env.X?.split(',').map((t) => t.trim()) || []
tokenList(variable) ==
  IF variable.set
  THEN [i \in 1..Len(split(variable.text, <<>>)) |->
          trim(split(variable.text, <<>>)[i])]
  ELSE <<>>

getStaticTokens(e) ==
  [registration |-> tokenList(e.registration), admin |-> tokenList(e.admin),
   sensitive |-> tokenList(e.sensitive), general |-> tokenList(e.general)]

includes(list, token) == \E i \in 1..Len(list) : list[i] = token

verifySecurityTokenAnyPurpose(e, token, expectedPurpose) ==
  \E purpose \in {"registration", "admin", "sensitive", "general"} :
    includes(getStaticTokens(e)[purpose], token)

\* verifySecurityToken(token, expectedPurpose); "none" is no purpose
verifySecurityToken(e, token, expectedPurpose) ==
  IF expectedPurpose = "none"
  THEN \E purpose \in {"registration", "admin", "sensitive", "general"} :
         includes(getStaticTokens(e)[purpose], token)
  ELSE includes(getStaticTokens(e)[expectedPurpose], token)

\* String.prototype.replace('Bearer ', ''): without the first occurrence
RECURSIVE replaceBearer(_)
replaceBearer(str) ==
  IF str = <<>> THEN <<>>
  ELSE IF Head(str) = "Bearer " THEN Tail(str)
  ELSE <<Head(str)>> \o replaceBearer(Tail(str))

headerTokenDefaultGeneral(h) ==
  IF h.xSecurity # <<>> THEN h.xSecurity
  ELSE IF h.xApi # <<>> THEN h.xApi
  ELSE IF replaceBearer(h.authorization) # <<>>
  THEN replaceBearer(h.authorization)
  ELSE IF h.xAccess # <<>> THEN h.xAccess
  ELSE <<"g">>

\* the token requireSecurityToken takes from the headers; an absent header
\* and an empty one are both falsy
headerToken(h) ==
  IF h.xSecurity # <<>> THEN h.xSecurity
  ELSE IF h.xApi # <<>> THEN h.xApi
  ELSE IF replaceBearer(h.authorization) # <<>>
  THEN replaceBearer(h.authorization)
  ELSE h.xAccess

CanReceive == http.pc = "idle"

Answer(r, st) == [r EXCEPT !.pc = "done", !.status = st]

\* next(): the rest of the route's chain runs and answers
CallNext(r) == [r EXCEPT !.pc = "done", !.next = TRUE]

\* requireSecurityToken(purpose): the whole middleware is synchronous
RequireSecurityToken(purpose, cookie, h) ==
  /\ CanReceive
  /\ LET r == [NoRequest EXCEPT !.route = purpose, !.cookie = cookie,
                                !.headers = h]
         token == headerToken(h)
     IN http' = IF token = <<>> THEN Answer(r, 401)
                ELSE IF ~verifySecurityToken(env, token, purpose)
                THEN Answer(r, 403)
                ELSE CallNext(r)
  /\ UNCHANGED <<dbVars, procs, nextServerId, ctlVars, utilVars, env, users,
               extVars>>

\* the response has been sent, or the rest of the chain has run
EndRequest ==
  /\ http.pc = "done"
  /\ http' = NoRequest
  /\ UNCHANGED <<dbVars, procs, nextServerId, ctlVars, utilVars, env, users,
               extVars>>

hasTokenUnlessEmpty(cookie) == cookie.kind # "empty"

\* !token on req.cookies.auth_token
hasToken(cookie) == cookie.kind \notin {"absent", "empty"}

jwtVerifiesIgnoringExpiry(cookie) ==
  cookie.kind = "jwt" /\ cookie.signed

\* jwt.verify(token, secret) returns the payload or throws
jwtVerifies(cookie) ==
  cookie.kind = "jwt" /\ cookie.signed /\ ~cookie.expired

\* authenticateToken up to its await: the cookie and the signature
AuthenticateToken(cookie, h) ==
  /\ CanReceive
  /\ LET r == [NoRequest EXCEPT !.route = "authenticateToken",
                                !.cookie = cookie, !.headers = h]
     IN http' = IF ~hasToken(cookie) THEN Answer(r, 401)
                ELSE IF ~jwtVerifies(cookie) THEN Answer(r, 403)
                ELSE [r EXCEPT !.pc = "auth_user"]
  /\ UNCHANGED <<dbVars, procs, nextServerId, ctlVars, utilVars, env, users,
               extVars>>

\* users.findUnique({id: decoded.userId}): without a userId in the payload
\* the call throws and the catch answers 403
AuthFindUser ==
  /\ http.pc = "auth_user"
  /\ http' = IF http.cookie.userId = NoId THEN Answer(http, 403)
             ELSE IF http.cookie.userId \notin users THEN Answer(http, 401)
             ELSE CallNext(http)
  /\ UNCHANGED <<dbVars, procs, nextServerId, ctlVars, utilVars, env, users,
               extVars>>

\* no list helper called
NoList ==
  /\ listCall = <<>>
  /\ listResult = <<>>

NoFile == <<>>

FileKinds == {"cctv", "activity_monitoring", "weapon_detection"}

FileIdle ==
  [pc |-> "idle", op |-> "none", kind |-> "none", withFile |-> FALSE,
   old |-> NoFile, new |-> NoFile, status |-> 0]

\* no table with files, no request on them
NoFiles ==
  /\ fileRows = [k \in FileKinds |-> [exists |-> FALSE, img |-> NoFile]]
  /\ disk = {}
  /\ fprocs = [p \in ProcIds |-> FileIdle]
  /\ clock = 0
  /\ nextUuid = 1

NoRetryCall ==
  [pc |-> "none", maxRetries |-> 0, retryDelay |-> 0, attempt |-> 0,
   elapsed |-> 0, outcomes |-> <<>>, waits |-> <<>>, result |-> "none",
   error |-> 0]

NoRetry == retry = NoRetryCall

RateRoutes == {"register", "login"}

NoRate ==
  /\ rateLimitMap = <<>>
  /\ nowMs = 0
  /\ passed = <<>>
  /\ lastLimited = [ip |-> "none", route |-> "none", status |-> 0]

NoSession == [state |-> "none", expired |-> FALSE]

NoSessions == sessions = [u \in UserIds |-> NoSession]

NoPost == NoRate /\ NoSessions

NoExt ==
  /\ NoList
  /\ NoFiles
  /\ NoRetry
  /\ NoPost

flexibleTokenAnyPurpose(e, r) ==
  IF headerToken(r.headers) # <<>>
     /\ verifySecurityToken(e, headerToken(r.headers), "none")
  THEN CallNext(r)
  ELSE Answer(r, 401)

\* flexibleAuth after the cookie has not authenticated the request: the
\* general security token of the headers, or 401
flexibleToken(e, r) ==
  IF headerToken(r.headers) # <<>>
     /\ verifySecurityToken(e, headerToken(r.headers), "general")
  THEN CallNext(r)
  ELSE Answer(r, 401)

\* flexibleAuth up to its await: the cookie and the signature; a failed
\* jwt.verify is caught and the headers are tried
FlexibleAuth(cookie, h) ==
  /\ CanReceive
  /\ LET r == [NoRequest EXCEPT !.route = "flexibleAuth", !.cookie = cookie,
                                !.headers = h]
     IN http' = IF hasToken(cookie) /\ jwtVerifies(cookie)
                THEN [r EXCEPT !.pc = "flex_user"]
                ELSE flexibleToken(env, r)
  /\ UNCHANGED <<dbVars, procs, nextServerId, ctlVars, utilVars, env, users,
               extVars>>

\* flexibleAuth: users.findUnique({id: decoded.userId}); a payload without a
\* userId makes it throw into the inner catch
FlexFindUser ==
  /\ http.pc = "flex_user"
  /\ http' = IF http.cookie.userId # NoId /\ http.cookie.userId \in users
             THEN CallNext(http)
             ELSE flexibleToken(env, http)
  /\ UNCHANGED <<dbVars, procs, nextServerId, ctlVars, utilVars, env, users,
               extVars>>

NoCall == [fn |-> "none", serverId |-> NoId, type |-> NoId, cap |-> 0,
           exclude |-> {}]
NoResult == [ok |-> FALSE, id |-> NoId]

NoUtil ==
  /\ utilCall = NoCall
  /\ utilResult = NoResult

\* a database with its servers registered, every counter at its default 0,
\* and no primary analytic yet; requests are served one at a time
InitSeq ==
  /\ \E m \in [ServerIds -> CapacityValues] :
       servers = [s \in ServerIds |->
                    [exists |-> TRUE, ip |-> s, max |-> m[s], cur |-> 0]]
  /\ analytics = [a \in AnalyticIds |-> NoAnalytic]
  /\ types = TypeIds
  /\ nextAnalyticId = 1
  /\ procs = [p \in ProcIds |-> Idle]
  /\ inFlightLimit = 1
  /\ budget = -1
  /\ nextServerId = MaxServers + 1
  /\ NoUtil
  /\ NoAuth
  /\ NoExt

\* the rows of primary_analytics after k creations with an explicit serverId
placed(k, where) ==
  [a \in AnalyticIds |->
     IF a <= k
     THEN [exists |-> TRUE, server |-> where[a][1], type |-> where[a][2]]
     ELSE NoAnalytic]

countOn(rows, s, t) ==
  Cardinality({a \in AnalyticIds :
                 rows[a].exists /\ rows[a].server = s /\ rows[a].type = t})

\* a database as a run of creations with an explicit serverId leaves it:
\* each counter equals the number of activity-monitoring analytics on its
\* server and is within the maximum.  Up to MaxOverlapping requests then
\* arrive and may overlap.
Init ==
  /\ \E m \in [ServerIds -> CapacityValues], k \in 0..MaxAnalytics,
        where \in [AnalyticIds -> ServerIds \X {1, 3}] :
       /\ analytics = placed(k, where)
       /\ servers = [s \in ServerIds |->
                       [exists |-> TRUE, ip |-> s, max |-> m[s],
                        cur |-> countOn(placed(k, where), s, 1)]]
       /\ \A s \in ServerIds : countOn(placed(k, where), s, 1) <= m[s]
       /\ nextAnalyticId = k + 1
  /\ types = TypeIds
  /\ procs = [p \in ProcIds |-> Idle]
  /\ inFlightLimit = 2
  /\ budget = MaxOverlapping
  /\ nextServerId = MaxServers + 1
  /\ NoUtil
  /\ NoAuth
  /\ NoExt

Next ==
  \E p \in ProcIds :
    \/ \E serverId \in {NoId} \cup ServerIds, typeId \in TypeIds,
          isServer \in BOOLEAN, polyOk \in BOOLEAN :
         \* with isServer false the body's serverId is never read
         /\ (~isServer => serverId = NoId)
         /\ StartCreatePA(p, serverId, typeId, isServer, polyOk)
    \/ CpaServer(p)
    \/ CpaCheck(p)
    \/ CpaAuto(p)
    \/ CpaTx(p)
    \/ \E id \in AnalyticIds, serverId \in {NoId} \cup ServerIds,
          typeId \in {NoId} \cup TypeIds :
         StartUpdatePA(p, id, serverId, typeId)
    \/ UpaServer(p)
    \/ UpaCheck(p)
    \/ UpaCheckCur(p)
    \/ UpaSelect(p)
    \/ UpaType(p)
    \/ ReleaseRead(p)
    \/ ReleaseWrite(p)
    \/ ReserveRead(p)
    \/ ReserveWrite(p)
    \/ UpaTx(p)
    \/ \E id \in AnalyticIds : StartDeletePA(p, id)
    \/ DpaTx(p)
    \/ Finish(p)

\* overlapping requests
Spec == Init /\ [][Next]_vars

\* the same handlers with requests served one at a time
SpecSeq == InitSeq /\ [][Next]_vars

\* servers that each take up to MaxDirectCapacity activity-monitoring
\* analytics, as a run of creations with an explicit serverId leaves them;
\* up to MaxOverlapping requests then arrive and may overlap
InitRoom ==
  /\ \E k \in 0..MaxAnalytics,
        where \in [AnalyticIds -> ServerIds \X {1, 3}] :
       /\ analytics = placed(k, where)
       /\ servers = [s \in ServerIds |->
                       [exists |-> TRUE, ip |-> s, max |-> MaxDirectCapacity,
                        cur |-> countOn(placed(k, where), s, 1)]]
       /\ \A s \in ServerIds :
            countOn(placed(k, where), s, 1) <= MaxDirectCapacity
       /\ nextAnalyticId = k + 1
  /\ types = TypeIds
  /\ procs = [p \in ProcIds |-> Idle]
  /\ inFlightLimit = 2
  /\ budget = MaxOverlapping
  /\ nextServerId = MaxServers + 1
  /\ NoUtil
  /\ NoAuth
  /\ NoExt

SpecRoom == InitRoom /\ [][Next]_vars

\* ---------------------------------------- direct calls of the utility
InitUtil ==
  /\ \E ex \in [ServerIds -> BOOLEAN],
        m \in [ServerIds -> DirectCapacityValues],
        c \in [ServerIds -> CurValues] :
       servers = [s \in ServerIds |->
                    IF ex[s]
                    THEN [exists |-> TRUE, ip |-> s, max |-> m[s], cur |-> c[s]]
                    ELSE NoServer]
  /\ analytics = [a \in AnalyticIds |-> NoAnalytic]
  /\ types = TypeIds
  /\ nextAnalyticId = 1
  /\ procs = [p \in ProcIds |-> Idle]
  /\ inFlightLimit = 0
  /\ budget = 0
  /\ nextServerId = MaxServers + 1
  /\ NoUtil
  /\ NoAuth
  /\ NoExt

CallReserve(s, t, c) ==
  /\ utilCall' = [fn |-> "reserve", serverId |-> s, type |-> t, cap |-> c,
                  exclude |-> {}]
  /\ utilResult' = [ok |-> reserveServerCapacity(servers, s, t, c)[1], id |-> NoId]
  /\ servers' = reserveServerCapacity(servers, s, t, c)[2]
  /\ UNCHANGED <<analytics, types, nextAnalyticId, procs, nextServerId, ctlVars,
               authVars, extVars>>

CallRelease(s, t, c) ==
  /\ utilCall' = [fn |-> "release", serverId |-> s, type |-> t, cap |-> c,
                  exclude |-> {}]
  /\ utilResult' = [ok |-> releaseServerCapacity(servers, s, t, c)[1], id |-> NoId]
  /\ servers' = releaseServerCapacity(servers, s, t, c)[2]
  /\ UNCHANGED <<analytics, types, nextAnalyticId, procs, nextServerId, ctlVars,
               authVars, extVars>>

CallCheck(s, t, c) ==
  /\ utilCall' = [fn |-> "check", serverId |-> s, type |-> t, cap |-> c,
                  exclude |-> {}]
  /\ utilResult' = [ok |-> checkServerCapacity(servers[s], t, c), id |-> NoId]
  /\ UNCHANGED <<dbVars, procs, nextServerId, ctlVars, authVars, extVars>>

CallSelectBest(t, c, ex) ==
  /\ utilCall' = [fn |-> "select", serverId |-> NoId, type |-> t, cap |-> c,
                  exclude |-> ex]
  /\ utilResult' = [ok |-> selectBestServer(servers, t, c, ex) # NoId,
                    id |-> selectBestServer(servers, t, c, ex)]
  /\ UNCHANGED <<dbVars, procs, nextServerId, ctlVars, authVars, extVars>>

NextUtil ==
  \/ \E s \in ServerIds, t \in TypeIds, c \in RequiredCaps : CallReserve(s, t, c)
  \/ \E s \in ServerIds, t \in TypeIds, c \in RequiredCaps : CallRelease(s, t, c)
  \/ \E s \in ServerIds, t \in TypeIds, c \in RequiredCaps : CallCheck(s, t, c)
  \/ \E t \in TypeIds, c \in RequiredCaps, ex \in SUBSET ServerIds :
       CallSelectBest(t, c, ex)

SpecUtil == InitUtil /\ [][NextUtil]_vars

\* ------------------------------------- servers and types being managed
IpValues == 1..MaxServers

\* the first n servers registered, nothing else yet; up to MaxManaging
\* requests arrive and may overlap
InitCrud ==
  /\ \E n \in 0..MaxServers, m \in [ServerIds -> CapacityValues] :
       /\ servers = [s \in ServerIds |->
                       IF s <= n
                       THEN [exists |-> TRUE, ip |-> s, max |-> m[s], cur |-> 0]
                       ELSE NoServer]
       /\ nextServerId = n + 1
  /\ analytics = [a \in AnalyticIds |-> NoAnalytic]
  /\ types = TypeIds
  /\ nextAnalyticId = 1
  /\ procs = [p \in ProcIds |-> Idle]
  /\ inFlightLimit = 2
  /\ budget = MaxManaging
  /\ NoUtil
  /\ NoAuth
  /\ NoExt

NextCrud ==
  \E p \in ProcIds :
    \/ \E ip \in IpValues, max \in CapacityValues, cur \in CapacityValues :
         StartCreateServer(p, ip, max, cur)
    \/ CsCreate(p)
    \/ \E id \in ServerIds : StartDeleteServer(p, id)
    \/ DsDelete(p)
    \/ \E id \in TypeIds : StartDeleteType(p, id)
    \/ DtDelete(p)
    \/ \E serverId \in {NoId} \cup ServerIds, typeId \in TypeIds,
          isServer \in BOOLEAN, polyOk \in BOOLEAN :
         /\ (~isServer => serverId = NoId)
         /\ StartCreatePA(p, serverId, typeId, isServer, polyOk)
    \/ CpaServer(p)
    \/ CpaCheck(p)
    \/ CpaAuto(p)
    \/ CpaTx(p)
    \/ Finish(p)

SpecCrud == InitCrud /\ [][NextCrud]_vars

\* --------------------------------------- requests meeting the middlewares
GeneralTokens == {Unset,
                  [set |-> TRUE, text |-> <<>>],
                  [set |-> TRUE, text |-> <<"g">>],
                  [set |-> TRUE, text |-> <<"g", ",", " ", "h">>]}
AdminTokens == {Unset, [set |-> TRUE, text |-> <<"a">>]}
RegistrationTokens == {[set |-> TRUE, text |-> <<"r">>]}

Cookies ==
  {NoCookie, [NoCookie EXCEPT !.kind = "empty"],
   [NoCookie EXCEPT !.kind = "garbage"]}
  \cup {[kind |-> "jwt", signed |-> sg, expired |-> ex, userId |-> u] :
          sg \in BOOLEAN, ex \in BOOLEAN, u \in {NoId} \cup UserIds}

Headers ==
  [xSecurity : {<<>>, <<"g">>, <<"a">>},
   xApi : {<<>>, <<"g">>, <<"a">>},
   authorization : {<<>>, <<"Bearer ">>, <<"Bearer ", "g">>,
                    <<"Bearer ", "a">>, <<"g">>, <<"h">>},
   xAccess : {<<>>, <<"g">>, <<"r">>}]

\* what a middleware does not read varies between absent and valid
UnreadCookies == {NoCookie, [kind |-> "jwt", signed |-> TRUE,
                             expired |-> FALSE, userId |-> 1]}
UnreadHeaders == {NoHeaders, [NoHeaders EXCEPT !.xSecurity = <<"g">>],
                  [NoHeaders EXCEPT !.authorization = <<"Bearer ", "a">>]}

InitAuth ==
  /\ servers = [s \in ServerIds |-> NoServer]
  /\ analytics = [a \in AnalyticIds |-> NoAnalytic]
  /\ types = TypeIds
  /\ nextAnalyticId = 1
  /\ nextServerId = 1
  /\ procs = [p \in ProcIds |-> Idle]
  /\ inFlightLimit = 0
  /\ budget = 0
  /\ NoUtil
  /\ \E g \in GeneralTokens, a \in AdminTokens, r \in RegistrationTokens :
       env = [registration |-> r, admin |-> a, sensitive |-> Unset,
              general |-> g]
  /\ users \in SUBSET UserIds
  /\ http = NoRequest
  /\ NoExt

NextAuth ==
  \/ EndRequest
  \/ \E cookie \in Cookies, h \in UnreadHeaders : AuthenticateToken(cookie, h)
  \/ AuthFindUser
  \/ \E purpose \in {"general", "admin", "registration"},
        cookie \in UnreadCookies, h \in Headers :
       RequireSecurityToken(purpose, cookie, h)
  \/ \E cookie \in Cookies, h \in Headers : FlexibleAuth(cookie, h)
  \/ FlexFindUser

SpecAuth == InitAuth /\ [][NextAuth]_vars

\* ------------------------------------------------------------ list helpers
\* A query-string value is a sequence of characters; a parameter the request
\* does not carry is undefined.

MaxQueryLen == 3
MaxPageLen == 2

QueryChars == {"-", "0", "1", "5", "a"}
Absent == <<"undefined">>

RECURSIVE stringsOfLen(_)
stringsOfLen(n) ==
  IF n = 0 THEN {<<>>}
  ELSE {Append(s, c) : s \in stringsOfLen(n - 1), c \in QueryChars}

stringsUpTo(n) == UNION {stringsOfLen(k) : k \in 0..n}

NaN == [nan |-> TRUE, n |-> 0]
Num(n) == [nan |-> FALSE, n |-> n]

isDigit(c) == c \in {"0", "1", "2", "3", "4", "5", "6", "7", "8", "9"}
digitValue(c) ==
  CASE c = "0" -> 0 [] c = "1" -> 1 [] c = "2" -> 2 [] c = "3" -> 3
    [] c = "4" -> 4 [] c = "5" -> 5 [] c = "6" -> 6 [] c = "7" -> 7
    [] c = "8" -> 8 [] c = "9" -> 9

\* the value of the longest prefix of digits
RECURSIVE digitsPrefix(_, _)
digitsPrefix(str, acc) ==
  IF str = <<>> \/ ~isDigit(Head(str)) THEN acc
  ELSE digitsPrefix(Tail(str), acc * 10 + digitValue(Head(str)))

\* parseInt(string): leading blanks, a sign, the digits that follow; NaN
\* when no digit follows
parseInt(str) ==
  LET s == trimStart(str)
      signed == s # <<>> /\ Head(s) \in {"-", "+"}
      body == IF signed THEN Tail(s) ELSE s
  IN IF body = <<>> \/ ~isDigit(Head(body)) THEN NaN
     ELSE IF signed /\ Head(s) = "-" THEN Num(0 - digitsPrefix(body, 0))
     ELSE Num(digitsPrefix(body, 0))

\* x || d on a number: NaN and 0 are falsy
orDefault(x, d) == IF x.nan \/ x.n = 0 THEN d ELSE x.n

Min2(a, b) == IF a <= b THEN a ELSE b

\* Math.ceil(a / b), b # 0
ceilDiv(a, b) ==
  IF b > 0 THEN 0 - ((0 - a) \div b) ELSE 0 - (a \div (0 - b))

getPaginationParamsSkipPages(query, options) ==
  LET page == Max2(1, orDefault(parseInt(query.page), 1))
      limit == Max2(1, Min2(orDefault(parseInt(query.limit),
                                      options.defaultLimit),
                            options.maxLimit))
  IN [page |-> page, limit |-> limit, skip |-> page * limit]

getPaginationParams(query, options) ==
  LET page == Max2(1, orDefault(parseInt(query.page), 1))
      limit == Max2(1, Min2(orDefault(parseInt(query.limit),
                                      options.defaultLimit),
                            options.maxLimit))
  IN [page |-> page, limit |-> limit, skip |-> (page - 1) * limit]

createPaginationMeta(page, limit, total) ==
  [page |-> page, limit |-> limit, total |-> total,
   totalPages |-> ceilDiv(total, limit),
   hasNext |-> page < ceilDiv(total, limit), hasPrev |-> page > 1]

findManyIgnoringTake(total, skip, take) == Max2(0, total - skip)

\* how many rows findMany({skip, take}) returns out of total matching rows;
\* a negative take counts from the end of the list
findMany(total, skip, take) ==
  Min2(IF take >= 0 THEN take ELSE 0 - take, Max2(0, total - skip))

\* handlePagination: count and data, then the meta
handlePagination(query, total, options) ==
  LET p == getPaginationParams(query, options)
  IN [status |-> 200, items |-> findMany(total, p.skip, p.limit),
      pagination |-> createPaginationMeta(p.page, p.limit, total)]

NoPagination ==
  [page |-> 0, limit |-> 0, total |-> 0, totalPages |-> 0,
   hasNext |-> FALSE, hasPrev |-> FALSE]

\* getPrimaryAnalyticsByCctvId: page and limit are parsed by the handler, the
\* pagination object is built by hand; a negative skip is refused by the
\* database client and the handler answers 500
getPrimaryAnalyticsByCctvId(query, total) ==
  LET page == orDefault(parseInt(query.page), 1)
      limit == orDefault(parseInt(query.limit), 10)
      offset == (page - 1) * limit
  IN IF offset < 0
     THEN [status |-> 500, items |-> 0, pagination |-> NoPagination]
     ELSE [status |-> 200, items |-> findMany(total, offset, limit),
           pagination |->
             [page |-> page, limit |-> limit, total |-> total,
              totalPages |-> ceilDiv(total, limit),
              hasNext |-> page < ceilDiv(total, limit),
              hasPrev |-> page > 1]]

\* the options the list endpoints pass: the defaults, and those of GET /cctv
ListOptions ==
  {[maxLimit |-> 100, defaultLimit |-> 10],
   [maxLimit |-> 50, defaultLimit |-> 10]}

Totals == {0, 1, 12, 120}

Queries ==
  [page : {Absent} \cup stringsUpTo(MaxPageLen),
   limit : {Absent} \cup stringsUpTo(MaxQueryLen)]

\* ---- search: a term is a sequence of characters, a row gives a text to
\* each searchable column
MaxTermLen == 2

TermChars == {" ", "a", "b"}

RECURSIVE termsOfLen(_)
termsOfLen(n) ==
  IF n = 0 THEN {<<>>}
  ELSE {Append(s, c) : s \in termsOfLen(n - 1), c \in TermChars}

Terms == UNION {termsOfLen(k) : k \in 0..MaxTermLen}

\* where: {} is every row
EmptyWhere == [kind |-> "all", fields |-> <<>>, mode |-> "none", term |-> <<>>]

\* search?.trim() || undefined
getSearchParams(query, options) ==
  [search |-> IF query.search = Absent \/ trim(query.search) = <<>>
              THEN Absent ELSE trim(query.search),
   searchFields |-> options.searchFields]

buildSearchWhereClauseAlwaysFilters(searchParams, options) ==
  [kind |-> IF Len(searchParams.searchFields) = 1 THEN "field" ELSE "OR",
   fields |-> searchParams.searchFields, mode |-> options.searchMode,
   term |-> IF searchParams.search = Absent THEN <<>>
            ELSE searchParams.search]

buildSearchWhereClause(searchParams, options) ==
  IF searchParams.search = Absent THEN EmptyWhere
  ELSE IF Len(searchParams.searchFields) = 1
  THEN [kind |-> "field", fields |-> <<searchParams.searchFields[1]>>,
        mode |-> options.searchMode, term |-> searchParams.search]
  ELSE [kind |-> "OR", fields |-> searchParams.searchFields,
        mode |-> options.searchMode, term |-> searchParams.search]

handleSearch(query, options) ==
  buildSearchWhereClause(getSearchParams(query, options), options)

\* column LIKE '%term%'
contains(text, term) ==
  \E i \in 0..(Len(text) - Len(term)) :
    SubSeq(text, i + 1, i + Len(term)) = term

\* the rows of a table that findMany({where}) returns
rowsWhere(table, where) ==
  IF where.kind = "all" THEN table
  ELSE {r \in table :
          \E i \in 1..Len(where.fields) : contains(r[where.fields[i]],
                                                   where.term)}

\* the search options of GET /role and of GET /analytic
SearchOptions ==
  {[searchFields |-> <<"name">>, searchMode |-> "contains"],
   [searchFields |-> <<"name", "description">>, searchMode |-> "contains"]}

SearchRows ==
  [name : {<<"a">>, <<"a", "b">>}, description : {<<>>, <<"b", " ">>}]

SearchQueries == [search : {Absent} \cup Terms]

CallHandleSearch ==
  /\ listCall.fn = "handleSearch"
  /\ listResult = <<>>
  /\ listResult' =
       [where |-> handleSearch(listCall.query, listCall.options),
        rows |-> rowsWhere(listCall.table,
                           handleSearch(listCall.query, listCall.options))]
  /\ UNCHANGED <<dbVars, procs, nextServerId, ctlVars, utilVars, authVars,
               listCall, fileVars, tailVars>>

\* ---- sort: field names and orders are whole words
SortByValues ==
  {Absent, <<>>, <<"created_at">>, <<"updated_at">>, <<"name">>, <<"ip">>,
   <<"password">>}
SortOrderValues == {Absent, <<>>, <<"asc">>, <<"desc">>, <<"ASC">>, <<"up">>}

\* the sort options of GET /role and of GET /server
SortOptions ==
  {[allowedFields |-> <<"created_at", "updated_at", "name">>,
    defaultField |-> "created_at", defaultOrder |-> "desc"],
   [allowedFields |-> <<"created_at", "updated_at", "ip",
                        "max_activity_monitoring",
                        "cur_activity_monitoring">>,
    defaultField |-> "created_at", defaultOrder |-> "desc"]}

SortQueries == [sortBy : SortByValues, sortOrder : SortOrderValues]

getSortParams(query, options) ==
  [field |-> IF /\ query.sortBy # Absent
                /\ query.sortBy # <<>>
                /\ includes(options.allowedFields, query.sortBy[1])
             THEN query.sortBy[1] ELSE options.defaultField,
   order |-> IF query.sortOrder = <<"asc">> \/ query.sortOrder = <<"desc">>
             THEN query.sortOrder[1] ELSE options.defaultOrder]

\* buildOrderByClause: {[field]: order}
buildOrderByClause(sortParams) ==
  [field |-> sortParams.field, order |-> sortParams.order]

handleSorting(query, options) ==
  buildOrderByClause(getSortParams(query, options))

CallHandleSorting ==
  /\ listCall.fn = "handleSorting"
  /\ listResult = <<>>
  /\ listResult' = handleSorting(listCall.query, listCall.options)
  /\ UNCHANGED <<dbVars, procs, nextServerId, ctlVars, utilVars, authVars,
               listCall, fileVars, tailVars>>

ListCalls ==
  [fn : {"handlePagination"}, query : Queries, total : Totals,
   options : ListOptions]
  \cup [fn : {"getPrimaryAnalyticsByCctvId"}, query : Queries,
        total : Totals]
  \cup [fn : {"getPaginationParams"}, query : Queries, options : ListOptions]
  \cup [fn : {"handleSearch"}, query : SearchQueries,
        options : SearchOptions, table : SUBSET SearchRows]
  \cup [fn : {"handleSorting"}, query : SortQueries, options : SortOptions]

CallHandlePagination ==
  /\ listCall.fn = "handlePagination"
  /\ listResult = <<>>
  /\ listResult' = handlePagination(listCall.query, listCall.total,
                                    listCall.options)
  /\ UNCHANGED <<dbVars, procs, nextServerId, ctlVars, utilVars, authVars,
               listCall, fileVars, tailVars>>

CallGetPrimaryAnalyticsByCctvId ==
  /\ listCall.fn = "getPrimaryAnalyticsByCctvId"
  /\ listResult = <<>>
  /\ listResult' = getPrimaryAnalyticsByCctvId(listCall.query, listCall.total)
  /\ UNCHANGED <<dbVars, procs, nextServerId, ctlVars, utilVars, authVars,
               listCall, fileVars, tailVars>>

CallGetPaginationParams ==
  /\ listCall.fn = "getPaginationParams"
  /\ listResult = <<>>
  /\ listResult' = getPaginationParams(listCall.query, listCall.options)
  /\ UNCHANGED <<dbVars, procs, nextServerId, ctlVars, utilVars, authVars,
               listCall, fileVars, tailVars>>

InitList ==
  /\ servers = [s \in ServerIds |-> NoServer]
  /\ analytics = [a \in AnalyticIds |-> NoAnalytic]
  /\ types = TypeIds
  /\ nextAnalyticId = 1
  /\ nextServerId = 1
  /\ procs = [p \in ProcIds |-> Idle]
  /\ inFlightLimit = 0
  /\ budget = 0
  /\ NoUtil
  /\ NoAuth
  /\ listCall \in ListCalls
  /\ listResult = <<>>
  /\ NoFiles
  /\ NoRetry
  /\ NoPost

NextList ==
  \/ CallGetPaginationParams
  \/ CallHandlePagination
  \/ CallGetPrimaryAnalyticsByCctvId
  \/ CallHandleSearch
  \/ CallHandleSorting

SpecList == InitList /\ [][NextList]_vars

\* ------------------------------------------------- rows that bear a file
\* One row of cctv, activity_monitoring and weapon_detection, and the files
\* of files/uploads. A file is known by its path.

MaxClock == 1
MaxFileRequests == 3

\* cctv-${id}-polygon-${dateStr}.ext: the name is made of the second
cctvFileName(t) == <<"cctv", t>>

\* a name made with randomUUID()
uuidFileName(kind, n) == <<kind, n>>

\* fs.existsSync, fs.unlinkSync: the disk without the file
deleteFileFromLocal(d, filePath) == d \ {filePath}

\* fs.writeFileSync
uploadFileToLocal(d, name) == d \cup {name}

CanStartFile(p) ==
  /\ fprocs[p].pc = "idle"
  /\ \A q \in ProcIds : q < p => fprocs[q].pc # "idle"
  /\ Cardinality({q \in ProcIds : fprocs[q].pc # "idle"}) < inFlightLimit
  /\ budget # 0

FileRespond(r, st) == [r EXCEPT !.pc = "idle", !.status = st]

SetFile(p, r) == fprocs' = [fprocs EXCEPT ![p] = r]

\* the request arrives and findUnique (for cctv) or the validator's lookup of
\* the existing record runs
StartFileRequest(p, op, kind, withFile) ==
  /\ CanStartFile(p)
  /\ Started
  /\ SetFile(p, IF fileRows[kind].exists
                THEN [FileIdle EXCEPT !.pc = "file", !.op = op,
                                      !.kind = kind, !.withFile = withFile,
                                      !.old = fileRows[kind].img]
                ELSE [FileIdle EXCEPT !.op = op, !.kind = kind,
                                      !.withFile = withFile, !.status = 404])
  /\ UNCHANGED <<dbVars, procs, nextServerId, inFlightLimit, utilVars,
               authVars, listVars, fileRows, disk, clock, nextUuid,
               tailVars>>

\* --- deleteCctv
StartDeleteCctv(p) == StartFileRequest(p, "deleteCctv", "cctv", FALSE)

\* if (existingCctv.polygon_img) await deleteFileFromLocal(...)
DcFile(p) ==
  /\ fprocs[p].pc = "file"
  /\ fprocs[p].op = "deleteCctv"
  /\ disk' = IF fprocs[p].old # NoFile
             THEN deleteFileFromLocal(disk, fprocs[p].old) ELSE disk
  /\ SetFile(p, [fprocs[p] EXCEPT !.pc = "write"])
  /\ UNCHANGED <<dbVars, procs, nextServerId, ctlVars, utilVars, authVars,
               listVars, fileRows, clock, nextUuid, tailVars>>

\* prisma.cctv.delete: the row goes, or the delete throws when it is gone
DcDelete(p) ==
  /\ fprocs[p].pc = "write"
  /\ fprocs[p].op = "deleteCctv"
  /\ IF fileRows["cctv"].exists
     THEN /\ fileRows' = [fileRows EXCEPT
                            !["cctv"] = [exists |-> FALSE, img |-> NoFile]]
          /\ SetFile(p, FileRespond(fprocs[p], 200))
     ELSE /\ SetFile(p, FileRespond(fprocs[p], 500))
          /\ UNCHANGED fileRows
  /\ UNCHANGED <<dbVars, procs, nextServerId, ctlVars, utilVars, authVars,
               listVars, disk, clock, nextUuid, tailVars>>

\* --- updateCctvWithFormData
StartUpdateCctv(p, withFile) ==
  StartFileRequest(p, "updateCctvWithFormData", "cctv", withFile)

\* with a file in the request: the old image is deleted, the new one is
\* written under the name of this second
UcFile(p) ==
  /\ fprocs[p].pc = "file"
  /\ fprocs[p].op = "updateCctvWithFormData"
  /\ IF fprocs[p].withFile
     THEN /\ disk' = uploadFileToLocal(
                       IF fprocs[p].old # NoFile
                       THEN deleteFileFromLocal(disk, fprocs[p].old)
                       ELSE disk,
                       cctvFileName(clock))
          /\ SetFile(p, [fprocs[p] EXCEPT !.pc = "write",
                                          !.new = cctvFileName(clock)])
     ELSE /\ SetFile(p, [fprocs[p] EXCEPT !.pc = "write"])
          /\ UNCHANGED disk
  /\ UNCHANGED <<dbVars, procs, nextServerId, ctlVars, utilVars, authVars,
               listVars, fileRows, clock, nextUuid, tailVars>>

\* prisma.cctv.update({data: updateData})
UcUpdate(p) ==
  /\ fprocs[p].pc = "write"
  /\ fprocs[p].op = "updateCctvWithFormData"
  /\ IF fileRows["cctv"].exists
     THEN /\ fileRows' = IF fprocs[p].withFile
                         THEN [fileRows EXCEPT !["cctv"].img = fprocs[p].new]
                         ELSE fileRows
          /\ SetFile(p, FileRespond(fprocs[p], 200))
     ELSE /\ SetFile(p, FileRespond(fprocs[p], 500))
          /\ UNCHANGED fileRows
  /\ UNCHANGED <<dbVars, procs, nextServerId, ctlVars, utilVars, authVars,
               listVars, disk, clock, nextUuid, tailVars>>

\* --- updateActivityMonitor, updateWeaponDetection
StartUpdateRecord(p, kind, withFile) ==
  StartFileRequest(p, "updateRecord", kind, withFile)

\* with an image in the request: it is written under a new random name
UrFile(p) ==
  /\ fprocs[p].pc = "file"
  /\ fprocs[p].op = "updateRecord"
  /\ IF fprocs[p].withFile
     THEN /\ disk' = uploadFileToLocal(
                       disk, uuidFileName(fprocs[p].kind, nextUuid))
          /\ nextUuid' = nextUuid + 1
          /\ SetFile(p, [fprocs[p] EXCEPT
                           !.pc = "write",
                           !.new = uuidFileName(fprocs[p].kind, nextUuid)])
     ELSE /\ SetFile(p, [fprocs[p] EXCEPT !.pc = "write"])
          /\ UNCHANGED <<disk, nextUuid>>
  /\ UNCHANGED <<dbVars, procs, nextServerId, ctlVars, utilVars, authVars,
               listVars, fileRows, clock, tailVars>>

\* prisma.activity_monitoring.update writes captureImgPath ||
\* existingRecord.capture_img; prisma.weapon_detection.update writes
\* capture_img only when an image came
UrUpdate(p) ==
  /\ fprocs[p].pc = "write"
  /\ fprocs[p].op = "updateRecord"
  /\ IF fileRows[fprocs[p].kind].exists
     THEN /\ fileRows' =
               IF fprocs[p].withFile
               THEN [fileRows EXCEPT ![fprocs[p].kind].img = fprocs[p].new]
               ELSE IF fprocs[p].kind = "activity_monitoring"
               THEN [fileRows EXCEPT ![fprocs[p].kind].img = fprocs[p].old]
               ELSE fileRows
          /\ SetFile(p, FileRespond(fprocs[p], 200))
     ELSE /\ SetFile(p, FileRespond(fprocs[p], 500))
          /\ UNCHANGED fileRows
  /\ UNCHANGED <<dbVars, procs, nextServerId, ctlVars, utilVars, authVars,
               listVars, disk, clock, nextUuid, tailVars>>

\* a second passes
Tick ==
  /\ clock < MaxClock
  /\ clock' = clock + 1
  /\ UNCHANGED <<dbVars, procs, nextServerId, ctlVars, utilVars, authVars,
               listVars, fileRows, disk, fprocs, nextUuid, tailVars>>

\* every row exists and has its image, stored when the row was created
InitFiles ==
  /\ servers = [s \in ServerIds |-> NoServer]
  /\ analytics = [a \in AnalyticIds |-> NoAnalytic]
  /\ types = TypeIds
  /\ nextAnalyticId = 1
  /\ nextServerId = 1
  /\ procs = [p \in ProcIds |-> Idle]
  /\ inFlightLimit \in {1, 2}
  /\ budget = MaxFileRequests
  /\ NoUtil
  /\ NoAuth
  /\ NoList
  /\ fileRows = [k \in FileKinds |->
                   [exists |-> TRUE,
                    img |-> IF k = "cctv" THEN cctvFileName(0)
                            ELSE uuidFileName(k, 0)]]
  /\ disk = {fileRows[k].img : k \in FileKinds}
  /\ fprocs = [p \in ProcIds |-> FileIdle]
  /\ clock = 0
  /\ nextUuid = 1
  /\ NoRetry
  /\ NoPost

NextFiles ==
  \/ Tick
  \/ \E p \in ProcIds :
       \/ StartDeleteCctv(p)
       \/ DcFile(p)
       \/ DcDelete(p)
       \/ \E withFile \in BOOLEAN : StartUpdateCctv(p, withFile)
       \/ UcFile(p)
       \/ UcUpdate(p)
       \/ \E kind \in {"activity_monitoring", "weapon_detection"},
             withFile \in BOOLEAN : StartUpdateRecord(p, kind, withFile)
       \/ UrFile(p)
       \/ UrUpdate(p)

SpecFiles == InitFiles /\ [][NextFiles]_vars

\* prisma.cctv.delete rejects because the database cannot be reached or the
\* statement times out: the catch answers 500
DcDeleteThrows(p) ==
  /\ fprocs[p].pc = "write"
  /\ fprocs[p].op = "deleteCctv"
  /\ SetFile(p, FileRespond(fprocs[p], 500))
  /\ UNCHANGED <<dbVars, procs, nextServerId, ctlVars, utilVars, authVars,
               listVars, fileRows, disk, clock, nextUuid, tailVars>>

NextFilesFaulty ==
  \/ NextFiles
  \/ \E p \in ProcIds : DcDeleteThrows(p)

\* the same requests with a database that may fail a delete
SpecFilesFaulty == InitFiles /\ [][NextFilesFaulty]_vars

\* ------------------------------------------------- makeRequestWithRetry
\* One call: the attempts made so far with their outcomes, and the time
\* waited before each new attempt. A response and an error are known by
\* the number of the attempt they came from.

MaxRetries == 3
MaxRetryDelay == 2
MaxLateness == 1

UnexpectedError == 0 - 1

isLastAttemptOneEarly(attempt, maxRetries) == attempt = maxRetries

isLastAttempt(attempt, maxRetries) == attempt = maxRetries + 1

SetRetry(r) ==
  /\ retry' = r
  /\ UNCHANGED <<dbVars, procs, nextServerId, ctlVars, utilVars, authVars,
               listVars, fileVars, postVars>>

\* for (...; attempt <= maxRetries + 1; ...), and the throw after the loop
LoopCheck ==
  /\ retry.pc = "loop"
  /\ SetRetry(IF retry.attempt <= retry.maxRetries + 1
              THEN [retry EXCEPT !.pc = "posting"]
              ELSE [retry EXCEPT !.pc = "thrown", !.error = UnexpectedError])

\* axios.post answers: return response
PostSucceeds ==
  /\ retry.pc = "posting"
  /\ SetRetry([retry EXCEPT !.pc = "returned",
                            !.outcomes = Append(@, "ok"),
                            !.result = retry.attempt])

\* axios.post fails or times out: throw on the last attempt, else set the
\* timer
PostFails ==
  /\ retry.pc = "posting"
  /\ SetRetry(IF isLastAttempt(retry.attempt, retry.maxRetries)
              THEN [retry EXCEPT !.pc = "thrown",
                                 !.outcomes = Append(@, "fail"),
                                 !.error = retry.attempt]
              ELSE [retry EXCEPT !.pc = "waiting",
                                 !.outcomes = Append(@, "fail"),
                                 !.elapsed = 0])

\* time passes while setTimeout(resolve, retryDelay) is pending
TimePasses ==
  /\ retry.pc = "waiting"
  /\ retry.elapsed < retry.retryDelay + MaxLateness
  /\ SetRetry([retry EXCEPT !.elapsed = @ + 1])

\* the timer fires, not before retryDelay; attempt++
TimerFires ==
  /\ retry.pc = "waiting"
  /\ retry.elapsed >= retry.retryDelay
  /\ SetRetry([retry EXCEPT !.pc = "loop", !.attempt = @ + 1,
                            !.waits = Append(@, retry.elapsed)])

\* the call, with the retryAttempts and retryDelay of a valid configuration
InitRetry ==
  /\ servers = [s \in ServerIds |-> NoServer]
  /\ analytics = [a \in AnalyticIds |-> NoAnalytic]
  /\ types = TypeIds
  /\ nextAnalyticId = 1
  /\ nextServerId = 1
  /\ procs = [p \in ProcIds |-> Idle]
  /\ inFlightLimit = 0
  /\ budget = 0
  /\ NoUtil
  /\ NoAuth
  /\ NoList
  /\ NoFiles
  /\ NoPost
  /\ \E m \in 0..MaxRetries, d \in 0..MaxRetryDelay :
       retry = [NoRetryCall EXCEPT !.pc = "loop", !.maxRetries = m,
                                   !.retryDelay = d, !.attempt = 1]

NextRetry ==
  \/ LoopCheck
  \/ PostSucceeds
  \/ PostFails
  \/ TimePasses
  \/ TimerFires

\* every request ends within config.timeout, time passes and every timer
\* fires
SpecRetry ==
  /\ InitRetry
  /\ [][NextRetry]_vars
  /\ WF_vars(LoopCheck)
  /\ WF_vars(PostSucceeds \/ PostFails)
  /\ WF_vars(TimePasses)
  /\ WF_vars(TimerFires)

\* ----------------------------------------------------------- rateLimit
\* One table for every limited route, keyed by the client address alone.

MaxTicks == 3

RegisterMax == 3
LoginMax == 10
WindowMs == 60000
TickMs == WindowMs \div 2

RequestIps == {"10.0.0.1", ""}

\* req.ip || 'unknown'
identifierOf(ip) == IF ip = "" THEN "unknown" ELSE ip

ClientIds == {identifierOf(ip) : ip \in RequestIps}

NoRecord == [set |-> FALSE, count |-> 0, resetTime |-> 0]

mapSize(map) == Cardinality({i \in ClientIds : map[i].set})

maxRequestsOf(route) == IF route = "register" THEN RegisterMax ELSE LoginMax

rateLimitEvicting(map, identifier, now, maxRequests, windowMs) ==
  IF ~map[identifier].set \/ now > map[identifier].resetTime
  THEN [map |-> [i \in ClientIds |->
                   IF i = identifier
                   THEN [set |-> TRUE, count |-> 1,
                         resetTime |-> now + windowMs]
                   ELSE IF map[i].set /\ now > map[i].resetTime
                   THEN NoRecord ELSE map[i]],
        next |-> TRUE]
  ELSE IF map[identifier].count >= maxRequests
  THEN [map |-> map, next |-> FALSE]
  ELSE [map |-> [map EXCEPT ![identifier].count = @ + 1], next |-> TRUE]

\* the middleware rateLimit(maxRequests, windowMs) on the table: the table
\* after the request, and whether next() is called (429 otherwise)
rateLimit(map, identifier, now, maxRequests, windowMs) ==
  IF ~map[identifier].set \/ now > map[identifier].resetTime
  THEN [map |-> [map EXCEPT ![identifier] =
                   [set |-> TRUE, count |-> 1, resetTime |-> now + windowMs]],
        next |-> TRUE]
  ELSE IF map[identifier].count >= maxRequests
  THEN [map |-> map, next |-> FALSE]
  ELSE [map |-> [map EXCEPT ![identifier].count = @ + 1], next |-> TRUE]

\* a request arrives at POST /register or POST /login
RateLimited(route, ip) ==
  LET id == identifierOf(ip)
      out == rateLimit(rateLimitMap, id, nowMs, maxRequestsOf(route), WindowMs)
      fresh == ~rateLimitMap[id].set \/ nowMs > rateLimitMap[id].resetTime
  IN /\ rateLimitMap' = out.map
     /\ lastLimited' = [ip |-> id, route |-> route,
                        status |-> IF out.next THEN 200 ELSE 429]
     /\ passed' = [passed EXCEPT ![id] =
                     [r \in RateRoutes |->
                        (IF fresh THEN 0 ELSE passed[id][r])
                        + (IF out.next /\ r = route THEN 1 ELSE 0)]]
     /\ UNCHANGED <<dbVars, procs, nextServerId, ctlVars, utilVars, authVars,
                  listVars, fileVars, retryVars, nowMs, sessionVars>>

\* time passes
TimeAdvances ==
  /\ nowMs < MaxTicks * TickMs
  /\ nowMs' = nowMs + TickMs
  /\ UNCHANGED <<dbVars, procs, nextServerId, ctlVars, utilVars, authVars,
               listVars, fileVars, retryVars, sessionVars, rateLimitMap, passed,
               lastLimited>>

InitRate ==
  /\ servers = [s \in ServerIds |-> NoServer]
  /\ analytics = [a \in AnalyticIds |-> NoAnalytic]
  /\ types = TypeIds
  /\ nextAnalyticId = 1
  /\ nextServerId = 1
  /\ procs = [p \in ProcIds |-> Idle]
  /\ inFlightLimit = 0
  /\ budget = 0
  /\ NoUtil
  /\ NoAuth
  /\ NoList
  /\ NoFiles
  /\ NoRetry
  /\ rateLimitMap = [i \in ClientIds |-> NoRecord]
  /\ nowMs = 0
  /\ passed = [i \in ClientIds |-> [r \in RateRoutes |-> 0]]
  /\ lastLimited = [ip |-> "none", route |-> "none", status |-> 0]
  /\ NoSessions

NextRate ==
  \/ TimeAdvances
  \/ \E route \in RateRoutes, ip \in RequestIps : RateLimited(route, ip)

SpecRate == InitRate /\ [][NextRate]_vars

\* ----------------------------------------------------- login and logout
\* generateToken: jwt.sign({userId, email}, secret, {expiresIn: '24h'}); the
\* token a client holds for the user, before or after its 24 hours
sessionToken(u) ==
  [kind |-> "jwt", signed |-> TRUE, expired |-> sessions[u].expired,
   userId |-> u]

\* login: the user is looked up and the password verified; then the token is
\* generated and set as the auth_token cookie.  A behaviour follows one
\* successful login per user.
Login(u, passwordOk) ==
  /\ CanReceive
  /\ sessions[u].state = "none"
  /\ LET r == [NoRequest EXCEPT !.route = "login"]
     IN IF u \in users /\ passwordOk
        THEN /\ http' = Answer(r, 200)
             /\ sessions' = [sessions EXCEPT ![u].state = "issued"]
        ELSE /\ http' = Answer(r, 401)
             /\ UNCHANGED sessions
  /\ UNCHANGED <<dbVars, procs, nextServerId, ctlVars, utilVars, env, users,
               listVars, fileVars, retryVars, rateVars>>

\* logout, behind authenticateToken which has set req.user: the cookie is
\* cleared in the client and nothing is stored
Logout ==
  /\ http.pc = "done" /\ http.route = "authenticateToken" /\ http.next
  /\ http' = [http EXCEPT !.route = "logout", !.status = 200]
  /\ sessions' = [sessions EXCEPT ![http.cookie.userId].state = "loggedOut"]
  /\ UNCHANGED <<dbVars, procs, nextServerId, ctlVars, utilVars, env, users,
               listVars, fileVars, retryVars, rateVars>>

\* 24 hours after the login
TokenExpires(u) ==
  /\ sessions[u].state # "none" /\ ~sessions[u].expired
  /\ sessions' = [sessions EXCEPT ![u].expired = TRUE]
  /\ UNCHANGED <<dbVars, procs, nextServerId, ctlVars, utilVars, authVars,
               listVars, fileVars, retryVars, rateVars>>

\* a request on an authenticateToken route presenting a token that a login
\* issued, from the cookie jar or from a copy
PresentToken(u) ==
  /\ sessions[u].state # "none"
  /\ AuthenticateToken(sessionToken(u), NoHeaders)

\* users deleted or not yet registered
InitSession ==
  /\ servers = [s \in ServerIds |-> NoServer]
  /\ analytics = [a \in AnalyticIds |-> NoAnalytic]
  /\ types = TypeIds
  /\ nextAnalyticId = 1
  /\ nextServerId = 1
  /\ procs = [p \in ProcIds |-> Idle]
  /\ inFlightLimit = 0
  /\ budget = 0
  /\ NoUtil
  /\ env = [registration |-> Unset, admin |-> Unset, sensitive |-> Unset,
            general |-> Unset]
  /\ users \in SUBSET UserIds
  /\ http = NoRequest
  /\ NoExt

NextSession ==
  \/ \E u \in UserIds, passwordOk \in BOOLEAN : Login(u, passwordOk)
  \/ \E u \in UserIds : PresentToken(u)
  \/ AuthenticateToken(NoCookie, NoHeaders)
  \/ AuthFindUser
  \/ Logout
  \/ \E u \in UserIds : TokenExpires(u)
  \/ EndRequest

SpecSession == InitSession /\ [][NextSession]_vars

\* ------------------------------------------------------------------ claims

\* C2: reserving capacity for a type-1 analytic on a server where
\* cur_activity_monitoring + capacity would exceed max_activity_monitoring
\* returns false and leaves that server's cur_activity_monitoring unchanged.
C2_ReserveBeyondMaxRefused ==
  [][\A s \in ServerIds, c \in RequiredCaps :
       (/\ utilCall' = [fn |-> "reserve", serverId |-> s, type |-> 1,
                        cap |-> c, exclude |-> {}]
        /\ servers[s].exists
        /\ servers[s].cur + c > servers[s].max)
       => (utilResult'.ok = FALSE /\ servers'[s].cur = servers[s].cur)]_vars

C2_Witness ==
  /\ utilCall.fn = "reserve"
  /\ utilCall.type = 1
  /\ servers[utilCall.serverId].exists
  /\ servers[utilCall.serverId].cur + utilCall.cap > servers[utilCall.serverId].max
  /\ servers[utilCall.serverId].cur <= servers[utilCall.serverId].max
  /\ utilResult.ok = FALSE

\* C4: selectBestServer returns no server when no non-excluded server has
\* max - current >= required capacity; otherwise it returns a non-excluded
\* server with sufficient capacity whose utilization (current / max) is the
\* lowest among all such servers and, among those of lowest utilization,
\* whose available capacity is the highest.
Eligible(s) ==
  /\ servers[s].exists
  /\ s \notin utilCall.exclude
  /\ servers[s].max - servers[s].cur >= utilCall.cap

C4_SelectBestLeastUtilized ==
  utilCall.fn = "select" =>
    IF \A s \in ServerIds : ~Eligible(s)
    THEN utilResult.id = NoId
    ELSE /\ utilResult.id \in ServerIds
         /\ Eligible(utilResult.id)
         /\ \A s \in ServerIds : Eligible(s) =>
              LET r == servers[utilResult.id]
                  o == servers[s]
              IN /\ r.cur * o.max <= o.cur * r.max
                 /\ (r.cur * o.max = o.cur * r.max =>
                       r.max - r.cur >= o.max - o.cur)

C4_Witness ==
  /\ utilCall.fn = "select"
  /\ utilResult.id # NoId
  /\ \E s \in ServerIds :
       /\ s # utilResult.id
       /\ Eligible(s)
       /\ servers[s].cur * servers[utilResult.id].max
            = servers[utilResult.id].cur * servers[s].max
       /\ servers[utilResult.id].max - servers[utilResult.id].cur
            > servers[s].max - servers[s].cur
       /\ s < utilResult.id

\* ------------------------------------------------------------------ claims
AllWithinMax == \A s \in ServerIds : servers[s].cur <= servers[s].max

\* C1: served one at a time, no step of a primary-analytic creation or
\* deletion takes the servers from every counter being within its maximum to
\* some counter above its maximum.
C1_CountersWithinMax ==
  [][(AllWithinMax /\ \E p \in ProcIds :
                        procs[p].op \in {"createPA", "deletePA"})
       => AllWithinMax']_vars

\* the unit a creation's capacity check observed is gone (cur >= max) by the
\* time its transaction runs
UnitTaken(r) ==
  /\ r.op = "createPA" /\ r.type = 1 /\ r.isServer /\ r.polyOk
  /\ r.free = 1
  /\ servers[r.sel].cur >= servers[r.sel].max

\* C3: two reservations on a server with one free unit race.  A creation of
\* an activity-monitoring analytic whose check saw one free unit still
\* succeeds after an overlapping request has taken that unit, leaving the
\* counter above the maximum; and a reservation made by a move writes the
\* value computed from its own read, whatever the counter holds by then.
C3_RacingReservationsBothAdmitted ==
  [][\A p \in ProcIds :
       /\ (procs[p].pc = "cpa_tx" /\ procs'[p].pc = "done" /\ UnitTaken(procs[p]))
            => /\ procs'[p].status = 201
               /\ servers'[procs[p].sel].cur > servers'[procs[p].sel].max
       /\ (procs[p].pc = "res_write" /\ procs'[p].pc = "upa_tx")
            => servers'[procs[p].sel].cur = procs[p].snapCur + 1]_vars

\* both creations saw the one free unit of the same server, both were answered
\* 201, and the server now holds more activity-monitoring analytics than its
\* maximum
C3_Witness ==
  \E p, q \in ProcIds :
    /\ p # q
    /\ \A x \in {p, q} :
         /\ procs[x].pc = "done" /\ procs[x].op = "createPA"
         /\ procs[x].type = 1 /\ procs[x].free = 1 /\ procs[x].status = 201
    /\ procs[p].sel = procs[q].sel
    /\ countOn(analytics, procs[p].sel, 1) > servers[procs[p].sel].max
    /\ servers[procs[p].sel].cur > servers[procs[p].sel].max

\* the types of the analytic a request is about: the type created, or the
\* stored type and the type after the update
TypesOf(r) ==
  IF r.op = "createPA" THEN {r.type}
  ELSE IF r.op \in {"updatePA", "deletePA"} THEN {r.etype, NewType(r)}
  ELSE {1}

\* a step of request p that was not refused for capacity and left every
\* counter as it was
PassesThrough(p) ==
  /\ procs'[p].reason # "capacity"
  /\ servers' = servers

C6_FailedRequestLeavesNoWrite ==
  \A p \in ProcIds :
    (procs[p].pc = "done" /\ procs[p].status >= 400) => ~procs[p].wrote

\* C7: when a create-server request arrives with an address a server row
\* already holds, it is answered 409 and the servers table is left as it was.
C7_DuplicateIpRefused ==
  [][\A p \in ProcIds :
       (/\ procs[p].pc = "idle" /\ procs'[p].op = "createServer"
        /\ \E s \in ServerIds :
             servers[s].exists /\ servers[s].ip = procs'[p].row.ip)
         => /\ procs'[p].pc = "done" /\ procs'[p].status = 409
            /\ servers' = servers]_vars

\* a create-server request for the address of server 2 has been answered 409
\* and that address still belongs to one row
C7_Witness ==
  \E p \in ProcIds :
    /\ procs[p].pc = "done" /\ procs[p].op = "createServer"
    /\ procs[p].status = 409
    /\ servers[2].exists /\ servers[2].ip = procs[p].row.ip
    /\ Cardinality({s \in ServerIds : servers[s].exists
                                        /\ servers[s].ip = procs[p].row.ip}) = 1

\* C8: a delete-server request for a server with an attached primary
\* analytic, and a delete-type request for a type a primary analytic uses,
\* are answered 400 and the row remains.
C8_DeleteWithDependentsRefused ==
  [][\A p \in ProcIds :
       /\ (/\ procs[p].pc = "idle" /\ procs'[p].op = "deleteServer"
           /\ servers[procs'[p].id].exists
           /\ \E a \in AnalyticIds :
                analytics[a].exists /\ analytics[a].server = procs'[p].id)
            => /\ procs'[p].pc = "done" /\ procs'[p].status = 400
               /\ servers'[procs'[p].id] = servers[procs'[p].id]
       /\ (/\ procs[p].pc = "idle" /\ procs'[p].op = "deleteType"
           /\ procs'[p].id \in types
           /\ \E a \in AnalyticIds :
                analytics[a].exists /\ analytics[a].type = procs'[p].id)
            => /\ procs'[p].pc = "done" /\ procs'[p].status = 400
               /\ procs'[p].id \in types']_vars

\* a delete-server request has been answered 400 for a server that holds one
\* primary analytic, and the server is still there
C8_Witness ==
  \E p \in ProcIds :
    /\ procs[p].pc = "done" /\ procs[p].op = "deleteServer"
    /\ procs[p].status = 400
    /\ servers[procs[p].id].exists
    /\ countAnalyticsOn(analytics, procs[p].id) = 1

carriedTokens(h) ==
  {h.xSecurity, h.xApi, replaceBearer(h.authorization), h.xAccess} \ {<<>>}

\* C10: a request on a requireGeneralToken route that carries a token, none
\* of its tokens being in the general list, is answered 403 and next() is
\* not called.
C10_NonGeneralTokenForbidden ==
  (/\ http.pc = "done" /\ http.route = "general"
   /\ carriedTokens(http.headers) # {}
   /\ \A t \in carriedTokens(http.headers) :
        ~includes(getStaticTokens(env).general, t))
    => http.status = 403 /\ ~http.next

\* a request carrying only a token of the admin list has been answered 403 on
\* a general route
C10_Witness ==
  /\ http.pc = "done" /\ http.route = "general"
  /\ carriedTokens(http.headers) = {<<"a">>}
  /\ includes(getStaticTokens(env).admin, <<"a">>)
  /\ getStaticTokens(env).general # <<>>
  /\ http.status = 403 /\ ~http.next

\* the cookie holds a correctly signed, unexpired token of an existing user
validSession(cookie) ==
  hasToken(cookie) /\ jwtVerifies(cookie) /\ cookie.userId \in users

C12_SchemesDoNotInteract ==
  http.pc = "done"
    => /\ (/\ http.route \in {"general", "admin", "registration"}
           /\ carriedTokens(http.headers) = {})
            => (http.status = 401 /\ ~http.next)
       /\ (http.route = "authenticateToken" /\ ~hasToken(http.cookie))
            => (http.status = 401 /\ ~http.next)

\* a valid session without token headers has been refused on a general-token
\* route
C12_Witness ==
  /\ http.pc = "done" /\ http.route = "general"
  /\ validSession(http.cookie)
  /\ carriedTokens(http.headers) = {}
  /\ http.status = 401

\* C13: a list request with page=p and limit=l never returns more than l
\* items, for every value of l the client may send.
sentLimit == parseInt(listCall.query.limit)

\* a list handler has answered with a page of rows
IsListResponse ==
  /\ listCall.fn \in {"handlePagination", "getPrimaryAnalyticsByCctvId"}
  /\ listResult # <<>>
  /\ listResult.status = 200

C13_NeverMoreThanLimit ==
  (IsListResponse /\ ~sentLimit.nan)
    => listResult.items <= sentLimit.n

\* C13 as the code has it: a list request with limit=l returns at most l
\* items for every l >= 1; through the pagination helper it returns at most
\* maxLimit items whatever l is, at most defaultLimit items when l is 0,
\* absent or not a number, and at most one item when l is negative.
C13_NeverMoreThanEffectiveLimit ==
  IsListResponse =>
    /\ (~sentLimit.nan /\ sentLimit.n >= 1)
         => listResult.items <= sentLimit.n
    /\ listCall.fn = "handlePagination" =>
         /\ listResult.items <= listCall.options.maxLimit
         /\ (sentLimit.nan \/ sentLimit.n = 0)
              => listResult.items <= listCall.options.defaultLimit
         /\ (~sentLimit.nan /\ sentLimit.n < 0) => listResult.items <= 1

C13_Witness ==
  /\ listCall.fn = "handlePagination"
  /\ listResult # <<>>
  /\ listCall.query.limit = <<"5">>
  /\ listCall.query.page = <<"1">>
  /\ listCall.total = 12
  /\ listResult.items = 5

\* C14: in every paginated response, hasNext is true if and only if
\* page * limit < total.
C14_HasNextIffMoreRows ==
  IsListResponse =>
    (listResult.pagination.hasNext
       <=> listResult.pagination.page * listResult.pagination.limit
             < listResult.pagination.total)

\* the same, for the responses built by the pagination helper
C14_HelperHasNextIffMoreRows ==
  listCall.fn = "handlePagination" => C14_HasNextIffMoreRows

\* C15: for any page and limit query values (absent, non-numeric, zero,
\* negative or larger than the maximum), the pagination parameters satisfy
\* page >= 1, 1 <= limit <= maxLimit, and skip = (page - 1) * limit.
C15_ParamsClamped ==
  (listCall.fn = "getPaginationParams" /\ listResult # <<>>) =>
    /\ listResult.page >= 1
    /\ 1 <= listResult.limit
    /\ listResult.limit <= listCall.options.maxLimit
    /\ listResult.skip = (listResult.page - 1) * listResult.limit

C15_Witness ==
  /\ listCall.fn = "getPaginationParams"
  /\ listResult # <<>>
  /\ listCall.query.page = <<"1", "1">>
  /\ listCall.query.limit = <<"5", "0", "0">>
  /\ listResult.page = 11
  /\ listResult.limit = listCall.options.maxLimit
  /\ listResult.skip = 10 * listCall.options.maxLimit

\* C16: a search whose term is absent or empty produces the same filter, and
\* therefore the same result set, as a request with no search filter.
C16_EmptySearchIsNoFilter ==
  (/\ listCall.fn = "handleSearch"
   /\ listResult # <<>>
   /\ listCall.query.search \in {Absent, <<>>})
    => (listResult.where = EmptyWhere /\ listResult.rows = listCall.table)

C16_Witness ==
  /\ listCall.fn = "handleSearch"
  /\ listResult # <<>>
  /\ listCall.query.search = <<>>
  /\ Cardinality(listCall.table) = 2
  /\ Len(listCall.options.searchFields) = 2
  /\ listResult.rows = listCall.table

\* C17: when the requested sort field is not in the allow-list, the
\* resulting ordering uses the configured default field and the configured
\* default order.
C17_DisallowedFieldGivesDefaults ==
  (/\ listCall.fn = "handleSorting"
   /\ listResult # <<>>
   /\ listCall.query.sortBy \notin {Absent, <<>>}
   /\ ~includes(listCall.options.allowedFields, listCall.query.sortBy[1]))
    => /\ listResult.field = listCall.options.defaultField
       /\ listResult.order = listCall.options.defaultOrder

\* the half of it that concerns the field
C17_DisallowedFieldGivesDefaultField ==
  (/\ listCall.fn = "handleSorting"
   /\ listResult # <<>>
   /\ listCall.query.sortBy \notin {Absent, <<>>}
   /\ ~includes(listCall.options.allowedFields, listCall.query.sortBy[1]))
    => listResult.field = listCall.options.defaultField

\* C18: after a successful DELETE of a cctv that has a stored polygon_img,
\* neither the cctv row nor the image file on disk exists.
DeleteCctvSucceeds(p) ==
  /\ fprocs[p].op = "deleteCctv"
  /\ fprocs[p].pc = "write"
  /\ fprocs'[p].pc = "idle"
  /\ fprocs'[p].status = 200
  /\ fileRows["cctv"].img # NoFile

C18_DeleteRemovesRowAndFile ==
  [][\A p \in ProcIds :
       DeleteCctvSucceeds(p)
         => (/\ ~fileRows'["cctv"].exists
             /\ fileRows["cctv"].img \notin disk')]_vars

\* the same, for requests served one at a time
C18_AloneDeleteRemovesRowAndFile ==
  [][\A p \in ProcIds :
       (inFlightLimit = 1 /\ DeleteCctvSucceeds(p))
         => (/\ ~fileRows'["cctv"].exists
             /\ fileRows["cctv"].img \notin disk')]_vars

\* C19: when an update of a file-bearing resource (cctv, activity_monitoring,
\* weapon_detection) supplies a new image and succeeds, the row references
\* the new file and the previously stored file no longer exists on disk.
UpdateWithImageSucceeds(p) ==
  /\ fprocs[p].op \in {"updateCctvWithFormData", "updateRecord"}
  /\ fprocs[p].withFile
  /\ fprocs[p].pc = "write"
  /\ fprocs'[p].pc = "idle"
  /\ fprocs'[p].status = 200

C19_UpdateReplacesFile ==
  [][\A p \in ProcIds :
       UpdateWithImageSucceeds(p)
         => (/\ fileRows'[fprocs[p].kind].img = fprocs[p].new
             /\ fprocs[p].new \in disk'
             /\ (fileRows[fprocs[p].kind].img # fprocs[p].new
                   => fileRows[fprocs[p].kind].img \notin disk'))]_vars

\* the same, for cctv alone and requests served one at a time
C19_AloneCctvUpdateReplacesFile ==
  [][\A p \in ProcIds :
       (inFlightLimit = 1 /\ fprocs[p].kind = "cctv"
        /\ UpdateWithImageSucceeds(p))
         => (/\ fileRows'["cctv"].img = fprocs[p].new
             /\ fprocs[p].new \in disk'
             /\ (fileRows["cctv"].img # fprocs[p].new
                   => fileRows["cctv"].img \notin disk'))]_vars

\* C20: the external-API request helper has bounded retries with a fixed
\* delay: it makes at most maxRetries + 1 attempts, waits retryDelay between
\* consecutive attempts, returns the first successful response, and
\* otherwise terminates by raising the error of the last attempt.
AttemptsMade == Len(retry.outcomes)

RetrySafe ==
  /\ AttemptsMade <= retry.maxRetries + 1
  /\ \A i \in 1..Len(retry.waits) : retry.waits[i] >= retry.retryDelay
  /\ AttemptsMade >= 1 => Len(retry.waits) >= AttemptsMade - 1
  /\ retry.pc = "posting" => Len(retry.waits) = AttemptsMade
  /\ \A i \in 1..(AttemptsMade - 1) : retry.outcomes[i] = "fail"
  /\ retry.pc = "returned" =>
       /\ retry.outcomes[AttemptsMade] = "ok"
       /\ retry.result = AttemptsMade
  /\ retry.pc = "thrown" =>
       /\ AttemptsMade = retry.maxRetries + 1
       /\ retry.outcomes[AttemptsMade] = "fail"
       /\ retry.error = AttemptsMade

C20_BoundedRetries ==
  /\ []RetrySafe
  /\ <>(retry.pc \in {"returned", "thrown"})

C20_Witness ==
  /\ retry.pc = "thrown"
  /\ retry.maxRetries = 2
  /\ retry.retryDelay = 2
  /\ AttemptsMade = 3
  /\ retry.waits = <<2, 2>>
  /\ retry.error = 3

\* C21: the rate-limiter map is unbounded with no eviction: entries are
\* never removed, so its size never decreases and grows by one for every
\* previously unseen client IP.
C21_NoEviction ==
  [][/\ \A i \in ClientIds : rateLimitMap[i].set => rateLimitMap'[i].set
     /\ mapSize(rateLimitMap') >= mapSize(rateLimitMap)
     /\ \A i \in ClientIds :
          (lastLimited' # lastLimited /\ lastLimited'.ip = i
           /\ ~rateLimitMap[i].set)
            => mapSize(rateLimitMap') = mapSize(rateLimitMap) + 1]_vars

C21_Witness ==
  /\ mapSize(rateLimitMap) = Cardinality(ClientIds)
  /\ \E i \in ClientIds : nowMs > rateLimitMap[i].resetTime
  /\ \E i \in ClientIds : rateLimitMap[i].resetTime = nowMs + WindowMs

\* C28: the number of requests a client IP may make to one rate-limited
\* route within a window does not depend on the requests that IP makes to
\* other rate-limited routes.
C28_RoutesCountedApart ==
  lastLimited.status = 429 =>
    passed[lastLimited.ip][lastLimited.route]
      >= maxRequestsOf(lastLimited.route)

\* C22: with requests served one at a time, whenever no request is in
\* progress each server's cur_activity_monitoring equals the number of
\* existing activity-monitoring (type 1) primary analytics assigned to it
C22_CounterEqualsAssigned ==
  (InFlight = {}) =>
    \A s \in ServerIds :
      servers[s].exists => servers[s].cur = countOn(analytics, s, 1)

\* C23: a creation without a serverId is assigned the server the
\* least-utilization rule gives for the rows it selects from: the
\* lowest-utilization server with free capacity, ties broken by the
\* highest available capacity
C23_AutoSelectionIsLeastUtilized ==
  [][\A p \in ProcIds :
       (procs[p].pc = "cpa_auto" /\ procs'[p].pc = "cpa_tx") =>
         procs'[p].sel = selectBestServer(servers, procs[p].type, 1, {})]_vars

\* a deletion of an activity-monitoring analytic that was answered 200
DeletedFrom(p, s) ==
  /\ procs[p].pc = "done" /\ procs[p].op = "deletePA"
  /\ procs[p].status = 200
  /\ procs[p].etype = 1 /\ procs[p].cur = s

\* C24: when the only two requests of a behaviour are deletions of two
\* activity-monitoring analytics of one server and both are answered 200, the
\* server's counter ends 2 lower than before: it started at the number of
\* such analytics the server had, so it ends at the number that remain
C24_NoReleaseLost ==
  \A s \in ServerIds :
    (/\ DeletedFrom(1, s) /\ DeletedFrom(2, s)
     /\ procs[1].id # procs[2].id
     /\ budget = MaxOverlapping - 2) =>
      servers[s].cur = countOn(analytics, s, 1)

\* C25: no step deletes a server row while a primary analytic is assigned
\* to that server
C25_NoDeleteWhileAssigned ==
  [][\A s \in ServerIds :
       (servers[s].exists /\ ~servers'[s].exists) =>
         countAnalyticsOn(analytics, s) = 0]_vars

\* a create-server request for the address that has been answered
CreatedServerAnswered(p, ip) ==
  /\ procs[p].pc = "done" /\ procs[p].op = "createServer"
  /\ procs[p].row.ip = ip

\* C26: when the only two requests of a behaviour are create-server requests
\* with the same free IP, one row with that IP results, one request is
\* answered 201 and the other 409
C26_SameIpOneCreatedOneConflict ==
  \A ip \in IpValues :
    (/\ CreatedServerAnswered(1, ip) /\ CreatedServerAnswered(2, ip)
     /\ budget = MaxManaging - 2
     /\ 201 \in {procs[1].status, procs[2].status}) =>
      /\ {procs[1].status, procs[2].status} = {201, 409}
      /\ Cardinality({s \in ServerIds :
                        servers[s].exists /\ servers[s].ip = ip}) = 1

C29_LoggedOutTokenRefused ==
  \A u \in UserIds :
    (/\ http.pc = "done" /\ http.route = "authenticateToken"
     /\ http.cookie = sessionToken(u)
     /\ sessions[u].state = "loggedOut") => ~http.next

\* C30: when the only request of a behaviour is a DELETE of the cctv that
\* found the row and was answered 500, the cctv row and its image file are
\* both still present
C30_FailedDeleteLeavesRowAndFile ==
  \A p \in ProcIds :
    (/\ fprocs[p].pc = "idle" /\ fprocs[p].op = "deleteCctv"
     /\ fprocs[p].status = 500
     /\ budget = MaxFileRequests - 1) =>
      /\ fileRows["cctv"].exists
      /\ fileRows["cctv"].img \in disk


====
